---- MODULE Spec2Model ----
(***************************************************************************)
(* Risk scoring and category mapping of the investment advisory system.   *)
(*                                                                         *)
(* Numbers.  Python floats are carried as fixed-point integers:            *)
(*   weights        in thousandths           (0.25  -> 250)                *)
(*   factor scores  in units of 1/FactorOne  (0.8   -> 8000)               *)
(*   risk scores    in units of 1/ScoreOne, ScoreOne = WeightOne*FactorOne *)
(*   rounded scores (round(x, 3)) in thousandths                           *)
(* math.log1p occurs in the code only in quotients log1p(a)/log1p(b),      *)
(* which do not depend on the base of the logarithm; Log1p computes        *)
(* log2(1 + n/d) in fixed point with LogBits fractional bits.              *)
(* The raw age and risk tolerance of an engine profile are carried in      *)
(* tenths (25.9 years -> 259) so that int() truncates something.           *)
(*                                                                         *)
(* State.  engine is the caller's RiskAssessmentEngine (or none yet), call *)
(* the call in progress with what it returns.  history is a ghost: the     *)
(* configuration the present engine was constructed with and the first     *)
(* result observed for each input of a scoring or selection call.          *)
(***************************************************************************)
EXTENDS Integers, Sequences, FiniteSets, TLC

VARIABLES engine, call, history

vars == <<engine, call, history>>

(* ------------------------------------------------------------------ *)
(* Fixed-point arithmetic                                              *)
(* ------------------------------------------------------------------ *)

\* resolution of a factor score: 1.0 is FactorOne
FactorOne == 10000
\* the float 1.0 of a weight total, in thousandths
WeightOne == 1000
\* the float 0.01 tolerance on the weight total, in thousandths
WeightTol == 10
\* fractional bits of the mantissa the logarithm is extracted from
MantBits == 13
\* fractional bits of a fixed-point logarithm
LogBits == 10

ScoreOne == WeightOne * FactorOne

Min(a, b) == IF a <= b THEN a ELSE b

Max(a, b) == IF a >= b THEN a ELSE b

Abs(a) == IF a >= 0 THEN a ELSE -a

Pow2(n) == 2 ^ n

\* Python's round(): round half to even of num/den, den > 0
RoundDiv(num, den) ==
    LET q == num \div den
        r == num % den
    IN  IF 2 * r < den THEN q
        ELSE IF 2 * r > den THEN q + 1
        ELSE IF q % 2 = 0 THEN q ELSE q + 1

\* int(): truncation toward zero of a value carried in tenths
IntOfTenths(v) == IF v >= 0 THEN v \div 10 ELSE -((-v) \div 10)

\* largest e with den * 2^e <= num, for num >= den > 0
RECURSIVE FloorLog2(_, _)
FloorLog2(num, den) == IF num < 2 * den THEN 0 ELSE 1 + FloorLog2(num, 2 * den)

\* floor(r * 2^k / d) for 0 <= r < d, by long division
RECURSIVE FracBits(_, _, _)
FracBits(r, d, k) ==
    IF k = 0 THEN 0
    ELSE IF 2 * r >= d THEN Pow2(k - 1) + FracBits(2 * r - d, d, k - 1)
    ELSE FracBits(2 * r, d, k - 1)

\* k fractional bits of log2(m / 2^MantBits) for 2^MantBits <= m < 2^(MantBits+1),
\* by repeated squaring
RECURSIVE LogFrac(_, _)
LogFrac(m, k) ==
    IF k = 0 THEN 0
    ELSE LET sq == (m * m) \div Pow2(MantBits)
         IN  IF sq >= 2 * Pow2(MantBits)
             THEN Pow2(k - 1) + LogFrac(sq \div 2, k - 1)
             ELSE LogFrac(sq, k - 1)

\* log2(num/den) * 2^LogBits for num >= den > 0
Log2Fix(num, den) ==
    LET e == FloorLog2(num, den)
        d == den * Pow2(e)
        m == Pow2(MantBits) + FracBits(num - d, d, MantBits)
    IN  e * Pow2(LogBits) + LogFrac(m, LogBits)

\* math.log1p(n/d), d > 0 and n + d > 0 (math.log1p raises ValueError otherwise)
Log1p(n, d) == IF n >= 0 THEN Log2Fix(n + d, d) ELSE -Log2Fix(d, n + d)

\* the float quotient a / b of two logarithms, as a factor score
LogQuot(a, b) == (a * FactorOne) \div b

\* min(max(x, 0), 1) on a factor score
Clamp01(x) == Min(Max(x, 0), FactorOne)

(* ------------------------------------------------------------------ *)
(* Values a caller can put in a profile                                *)
(* ------------------------------------------------------------------ *)

Num(v) == [k |-> "num", v |-> v]

NoneVal == [k |-> "none", v |-> 0]

StrVal == [k |-> "str", v |-> 0]

Missing == [k |-> "missing", v |-> 0]

\* dict.get(key, default): the default only when the key is absent
Get(raw, default) == IF raw.k = "missing" THEN default ELSE raw

\* sum of the keys of a goals dict {months: target}
RECURSIVE SumMonths(_)
SumMonths(items) ==
    IF items = <<>> THEN 0 ELSE Head(items).months + SumMonths(Tail(items))

(* ------------------------------------------------------------------ *)
(* config/settings.py                                                  *)
(* ------------------------------------------------------------------ *)

FactorNames ==
    {"age_factor", "income_factor", "timeline_factor",
     "surplus_factor", "savings_factor", "risk_tolerance_factor"}

WEIGHTS ==
    [age_factor |-> 250, income_factor |-> 200, timeline_factor |-> 200,
     surplus_factor |-> 150, savings_factor |-> 100, risk_tolerance_factor |-> 100]

\* a float literal given in tenths, as a risk score in units of 1/ScoreOne
ScoreTenths(t) == (t * ScoreOne) \div 10

\* the dict RISK_CATEGORIES in insertion order: (min, max) -> category
RISK_CATEGORIES ==
    << [min |-> ScoreTenths(0), max |-> ScoreTenths(2), category |-> "Very Conservative"],
       [min |-> ScoreTenths(2), max |-> ScoreTenths(4), category |-> "Conservative"],
       [min |-> ScoreTenths(4), max |-> ScoreTenths(6), category |-> "Moderate"],
       [min |-> ScoreTenths(6), max |-> ScoreTenths(8), category |-> "Growth"],
       [min |-> ScoreTenths(8), max |-> ScoreTenths(10), category |-> "Aggressive"] >>

INCOME_CAP == 100000

Categories ==
    {"Very Conservative", "Conservative", "Moderate", "Growth", "Aggressive"}

ALLOCATIONS ==
    [c \in Categories |->
        CASE c = "Very Conservative" -> [debt |-> 85, equity |-> 15]
          [] c = "Conservative" -> [debt |-> 70, equity |-> 30]
          [] c = "Moderate" -> [debt |-> 55, equity |-> 45]
          [] c = "Growth" -> [debt |-> 35, equity |-> 65]
          [] c = "Aggressive" -> [debt |-> 20, equity |-> 80]]

(* ------------------------------------------------------------------ *)
(* modules/risk_assessment_complex.py: RiskAssessmentEngine            *)
(* ------------------------------------------------------------------ *)

RECURSIVE SumWeights(_, _)
SumWeights(w, names) ==
    IF names = {} THEN 0
    ELSE LET n == CHOOSE x \in names : TRUE
         IN  w[n] + SumWeights(w, names \ {n})

\* mutant: the tolerance on the total written 0.1 instead of 0.01
validate_config_raises_loose(weights) ==
    Abs(SumWeights(weights, DOMAIN weights) - WeightOne) > 10 * WeightTol

\* _validate_config: TRUE when ValueError is raised
validate_config_raises(weights) ==
    Abs(SumWeights(weights, DOMAIN weights) - WeightOne) > WeightTol

\* mutant: an out-of-range age is clamped to 18..100 instead of replaced by 30
validate_age_clamping(raw) ==
    IF raw.k = "num" THEN Min(Max(IntOfTenths(raw.v), 18), 100) ELSE 30

\* _validate_age, on a raw value with numbers in tenths of a year
validate_age(raw) ==
    IF raw.k = "num"
    THEN LET age == IntOfTenths(raw.v)
         IN  IF age < 18 \/ age > 100 THEN 30 ELSE age
    ELSE 30

\* _validate_income
validate_income(raw) ==
    IF raw.k = "num"
    THEN IF raw.v < 0 THEN 0 ELSE raw.v
    ELSE 50000

\* mutant: an out-of-range tolerance is clamped to 1..10 instead of replaced by 5
validate_risk_tolerance_clamping(raw) ==
    IF raw.k = "num" THEN Min(Max(IntOfTenths(raw.v), 1), 10) ELSE 5

\* _validate_risk_tolerance, on a raw value with numbers in tenths
validate_risk_tolerance(raw) ==
    IF raw.k = "num"
    THEN LET tolerance == IntOfTenths(raw.v)
         IN  IF tolerance < 1 \/ tolerance > 10 THEN 5 ELSE tolerance
    ELSE 5

\* max(x, 0) raises TypeError on None and on a string
max0_raises(raw) == raw.k \in {"none", "str"}

max0(raw) == Max(raw.v, 0)

calculate_age_factor(age) ==
    IF age <= 25 THEN FactorOne
    ELSE IF age <= 35 THEN (8 * FactorOne) \div 10
    ELSE IF age <= 45 THEN (6 * FactorOne) \div 10
    ELSE IF age <= 55 THEN (4 * FactorOne) \div 10
    ELSE (2 * FactorOne) \div 10

calculate_income_factor(income) ==
    LET capped_income == Min(income, INCOME_CAP)
        income_factor == (capped_income * FactorOne) \div INCOME_CAP
    IN  Clamp01(income_factor)

\* goals.keys() raises AttributeError on a non-empty list
timeline_raises(goals) == goals.k = "list" /\ goals.items # <<>>

\* mutant: the horizon of the first goal stands for the average
calculate_timeline_factor_first(goals) ==
    IF goals.k = "none" \/ goals.items = <<>>
    THEN FactorOne \div 2
    ELSE Clamp01(LogQuot(Log1p(Head(goals.items).months, 12), Log1p(30, 1)))

calculate_timeline_factor(goals) ==
    IF goals.k = "none" \/ goals.items = <<>>
    THEN FactorOne \div 2
    ELSE Clamp01(LogQuot(Log1p(SumMonths(goals.items), 12 * Len(goals.items)),
                         Log1p(30, 1)))

calculate_surplus_factor(monthly_surplus, income) ==
    IF income <= 0 THEN 0
    ELSE LET surplus == Max(monthly_surplus, 0)
         IN  Clamp01(LogQuot(Log1p(surplus, 1), Log1p(income, 2)))

calculate_savings_factor(current_savings, monthly_income) ==
    IF monthly_income <= 0 THEN 0
    ELSE Clamp01(LogQuot(Log1p(current_savings, monthly_income), Log1p(60, 1)))

\* mutant: the scale read backwards, 1 the most and 10 the least tolerant
calculate_tolerance_factor_reversed(risk_tolerance) ==
    ((10 - risk_tolerance) * FactorOne) \div 9

calculate_tolerance_factor(risk_tolerance) ==
    ((risk_tolerance - 1) * FactorOne) \div 9

\* mutant: a weight table whose values do not sum to 1.0 is refused as well
weights_raise_unless_normalised(weights) ==
    \/ weights.k = "none"
    \/ \E n \in FactorNames : n \notin DOMAIN weights.w
    \/ SumWeights(weights.w, FactorNames) # WeightOne

\* weights[name] raises TypeError on None and KeyError on a missing key
weights_raise(weights) ==
    \/ weights.k = "none"
    \/ \E n \in FactorNames : n \notin DOMAIN weights.w

\* mutant: the weighted sum returned without the final min(max(.., 0), 1)
calculate_weighted_score_unclamped(w, f) ==
    SumWeights([n \in FactorNames |-> w[n] * f[n]], FactorNames)

\* _calculate_weighted_score, f maps each factor name to its factor score
calculate_weighted_score(w, f) ==
    LET risk_score == SumWeights([n \in FactorNames |-> w[n] * f[n]], FactorNames)
    IN  Min(Max(risk_score, 0), ScoreOne)

RECURSIVE FirstBand(_, _)
FirstBand(risk_score, i) ==
    IF i > Len(RISK_CATEGORIES) THEN 0
    ELSE IF RISK_CATEGORIES[i].min <= risk_score /\ risk_score <= RISK_CATEGORIES[i].max
    THEN i
    ELSE FirstBand(risk_score, i + 1)

\* mutant: the last matching band wins instead of the first
get_risk_category_last_match(risk_score) ==
    LET hits == {i \in 1..Len(RISK_CATEGORIES) :
                    /\ RISK_CATEGORIES[i].min <= risk_score
                    /\ risk_score <= RISK_CATEGORIES[i].max}
        i == IF hits = {} THEN 0 ELSE CHOOSE x \in hits : \A y \in hits : y <= x
    IN  IF i > 0
        THEN [category |-> RISK_CATEGORIES[i].category,
              allocation |-> ALLOCATIONS[RISK_CATEGORIES[i].category]]
        ELSE [category |-> "Moderate", allocation |-> ALLOCATIONS["Moderate"]]

\* mutant: bands half-open at the top, min <= risk_score < max
get_risk_category_half_open(risk_score) ==
    LET hits == {i \in 1..Len(RISK_CATEGORIES) :
                    /\ RISK_CATEGORIES[i].min <= risk_score
                    /\ risk_score < RISK_CATEGORIES[i].max}
        i == IF hits = {} THEN 0 ELSE CHOOSE x \in hits : \A y \in hits : x <= y
    IN  IF i > 0
        THEN [category |-> RISK_CATEGORIES[i].category,
              allocation |-> ALLOCATIONS[RISK_CATEGORIES[i].category]]
        ELSE [category |-> "Moderate", allocation |-> ALLOCATIONS["Moderate"]]

\* _get_risk_category_and_allocation
get_risk_category_and_allocation(risk_score) ==
    LET i == FirstBand(risk_score, 1)
    IN  IF i > 0
        THEN [category |-> RISK_CATEGORIES[i].category,
              allocation |-> ALLOCATIONS[RISK_CATEGORIES[i].category]]
        ELSE [category |-> "Moderate", allocation |-> ALLOCATIONS["Moderate"]]

\* _get_default_conservative_profile
get_default_conservative_profile ==
    [raised |-> FALSE,
     risk_score |-> 300,
     risk_category |-> "Conservative",
     debt_allocation |-> 70,
     equity_allocation |-> 30,
     factor_breakdown |-> [n \in {} |-> 0],
     weighted_contributions |-> [n \in {} |-> 0],
     error |-> TRUE]

\* round(x, 3) of a risk score or of a weighted contribution, in thousandths
Round3Score(x) == RoundDiv(x, ScoreOne \div 1000)

\* round(x, 3) of a factor score, in thousandths
Round3Factor(x) == RoundDiv(x * 1000, FactorOne)

EmptyDict == [k |-> "dict", items |-> <<>>]

\* TRUE when a statement of calculate_risk_score's try block raises
scoring_raises(config_weights, user_profile) ==
    \/ ~user_profile.mapping
    \/ max0_raises(Get(user_profile.current_savings, Num(0)))
    \/ max0_raises(Get(user_profile.monthly_surplus, Num(0)))
    \/ timeline_raises(Get(user_profile.goals, EmptyDict))
    \/ weights_raise(Get(user_profile.custom_weights,
                        [k |-> "dict", w |-> config_weights]))

\* the local variables of calculate_risk_score's try block when nothing raises
scoring_locals(config_weights, user_profile) ==
    LET age == validate_age(Get(user_profile.age, Num(300)))
        income == validate_income(Get(user_profile.monthly_income, Num(50000)))
        current_savings == max0(Get(user_profile.current_savings, Num(0)))
        monthly_surplus == max0(Get(user_profile.monthly_surplus, Num(0)))
        goals == Get(user_profile.goals, EmptyDict)
        risk_tolerance ==
            validate_risk_tolerance(Get(user_profile.risk_tolerance_score, Num(50)))
        weights ==
            Get(user_profile.custom_weights, [k |-> "dict", w |-> config_weights]).w
        factors ==
            [age_factor |-> calculate_age_factor(age),
             income_factor |-> calculate_income_factor(income),
             timeline_factor |-> calculate_timeline_factor(goals),
             surplus_factor |-> calculate_surplus_factor(monthly_surplus, income),
             savings_factor |-> calculate_savings_factor(current_savings, income),
             risk_tolerance_factor |-> calculate_tolerance_factor(risk_tolerance)]
        risk_score == calculate_weighted_score(weights, factors)
        ca == get_risk_category_and_allocation(risk_score)
    IN  [age |-> age, income |-> income, current_savings |-> current_savings,
         monthly_surplus |-> monthly_surplus, risk_tolerance |-> risk_tolerance,
         weights |-> weights, factors |-> factors, risk_score |-> risk_score,
         risk_category |-> ca.category, allocation |-> ca.allocation]

\* the dict calculate_risk_score returns from its try block
scoring_result(l) ==
    [raised |-> FALSE,
     risk_score |-> Round3Score(l.risk_score),
     risk_category |-> l.risk_category,
     debt_allocation |-> l.allocation.debt,
     equity_allocation |-> l.allocation.equity,
     factor_breakdown |->
         [age_factor |-> Round3Factor(l.factors.age_factor),
          income_factor |-> Round3Factor(l.factors.income_factor),
          timeline_factor |-> Round3Factor(l.factors.timeline_factor),
          surplus_factor |-> Round3Factor(l.factors.surplus_factor),
          savings_factor |-> Round3Factor(l.factors.savings_factor),
          tolerance_factor |-> Round3Factor(l.factors.risk_tolerance_factor)],
     weighted_contributions |->
         [age_contribution |->
              Round3Score(l.weights.age_factor * l.factors.age_factor),
          income_contribution |->
              Round3Score(l.weights.income_factor * l.factors.income_factor),
          timeline_contribution |->
              Round3Score(l.weights.timeline_factor * l.factors.timeline_factor),
          surplus_contribution |->
              Round3Score(l.weights.surplus_factor * l.factors.surplus_factor),
          savings_contribution |->
              Round3Score(l.weights.savings_factor * l.factors.savings_factor),
          tolerance_contribution |->
              Round3Score(l.weights.risk_tolerance_factor
                          * l.factors.risk_tolerance_factor)],
     error |-> FALSE]

NoLocals == [n \in {} |-> 0]

\* mutant: no except clause, the exception reaches the caller
calculate_risk_score_propagating(config_weights, user_profile) ==
    IF scoring_raises(config_weights, user_profile)
    THEN [result |-> [raised |-> TRUE, risk_score |-> 0, risk_category |-> "",
                      debt_allocation |-> 0, equity_allocation |-> 0,
                      factor_breakdown |-> NoLocals,
                      weighted_contributions |-> NoLocals, error |-> FALSE],
          logged_error |-> TRUE,
          locals |-> NoLocals]
    ELSE LET l == scoring_locals(config_weights, user_profile)
         IN  [result |-> scoring_result(l), logged_error |-> FALSE, locals |-> l]

\* RiskAssessmentEngine.calculate_risk_score: try / except Exception.  With the
\* returned dict go what logger.error recorded and the locals of the try block.
calculate_risk_score(config_weights, user_profile) ==
    IF scoring_raises(config_weights, user_profile)
    THEN [result |-> get_default_conservative_profile,
          logged_error |-> TRUE,
          locals |-> NoLocals]
    ELSE LET l == scoring_locals(config_weights, user_profile)
         IN  [result |-> scoring_result(l), logged_error |-> FALSE, locals |-> l]

\* the module-level calculate_risk_score of risk_assessment_complex: a new default
\* engine scores the profile built from the arguments, custom_weights set only
\* when weights is truthy, and the risk_score of the result is returned
legacy_calculate_risk_score(a) ==
    LET user_profile ==
            [mapping |-> TRUE,
             age |-> Num(10 * a.age),
             monthly_income |-> Num(a.income),
             current_savings |-> Num(a.current_savings),
             monthly_surplus |-> Num(a.monthly_surplus),
             goals |-> [k |-> "dict", items |-> a.goals],
             risk_tolerance_score |-> Num(10 * a.risk_tolerance),
             custom_weights |->
                 IF a.weights.k = "dict" THEN a.weights
                 ELSE [k |-> "missing", w |-> WEIGHTS]]
    IN  calculate_risk_score(WEIGHTS, user_profile).result.risk_score

\* the module-level get_risk_category_from_score of risk_assessment_complex: a new
\* default engine's category and allocation, the allocation copied key by key
legacy_get_risk_category_from_score(risk_score) ==
    LET ca == get_risk_category_and_allocation(risk_score)
    IN  [category |-> ca.category,
         allocation |-> [debt |-> ca.allocation.debt, equity |-> ca.allocation.equity]]

\* mutant: test_profile is base_profile itself, not a copy of it
test_profile_aliased(base_profile, param, value) ==
    [test |-> [base_profile EXCEPT ![param] = value],
     base |-> [base_profile EXCEPT ![param] = value]]

\* analyze_risk_sensitivity: test_profile = base_profile.copy();
\* test_profile[param] = value.  With the test profile goes base_profile as the
\* assignment leaves it.
test_profile(base_profile, param, value) ==
    [test |-> [base_profile EXCEPT ![param] = value], base |-> base_profile]

\* the inner loop of analyze_risk_sensitivity over the values of one parameter:
\* param_results, and base_profile as the loop leaves it.  As in the code, the
\* result of each call is bound to a name once (x \in {e}) and then read.
RECURSIVE param_results(_, _, _, _, _)
param_results(config_weights, base_profile, base_score, param, values) ==
    IF values = <<>> THEN [results |-> <<>>, base |-> base_profile]
    ELSE LET t == test_profile(base_profile, param, Head(values))
         IN  CHOOSE out \in
                 { [results |->
                        << [value |-> Head(values),
                            risk_score |-> result.risk_score,
                            risk_category |-> result.risk_category,
                            score_change |-> result.risk_score - base_score] >>
                        \o rest.results,
                    base |-> rest.base] :
                   result \in {calculate_risk_score(config_weights, t.test).result},
                   rest \in {param_results(config_weights, t.base, base_score,
                                           param, Tail(values))} } : TRUE

\* the outer loop over variations.items(): results in insertion order, and
\* base_profile as the loop leaves it
RECURSIVE sensitivity_results(_, _, _, _)
sensitivity_results(config_weights, base_profile, base_score, variations) ==
    IF variations = <<>> THEN [results |-> <<>>, base |-> base_profile]
    ELSE CHOOSE out \in
             { CHOOSE o \in
                   { [results |->
                          << [param |-> Head(variations).param,
                              results |-> first.results] >>
                          \o rest.results,
                      base |-> rest.base] :
                     rest \in {sensitivity_results(config_weights, first.base,
                                                   base_score, Tail(variations))} } :
                   TRUE :
               first \in {param_results(config_weights, base_profile, base_score,
                                        Head(variations).param,
                                        Head(variations).values)} } : TRUE

\* RiskAssessmentEngine.analyze_risk_sensitivity; base_profile is the caller's
\* dict after the call
analyze_risk_sensitivity(config_weights, base_profile, variations) ==
    CHOOSE out \in
        { CHOOSE o \in
              { [base_score |-> base_result.risk_score,
                 base_category |-> base_result.risk_category,
                 sensitivity_results |-> loop.results,
                 base_profile |-> loop.base] :
                loop \in {sensitivity_results(config_weights, base_profile,
                                              base_result.risk_score, variations)} } :
              TRUE :
          base_result \in {calculate_risk_score(config_weights, base_profile).result} } :
        TRUE

(* ------------------------------------------------------------------ *)
(* modules/risk_assessment.py and modules/fund_filtering.py            *)
(* ------------------------------------------------------------------ *)

SimpleNames == {"age", "income", "timeline", "surplus", "savings", "tolerance"}

default_weights ==
    [age |-> 250, income |-> 200, timeline |-> 200,
     surplus |-> 150, savings |-> 100, tolerance |-> 100]

\* a fraction of the portfolio given in percent, in units of 1/10000
Frac(percent) == percent * 100

\* w = weights if weights else default_weights
ra_weights(weights) ==
    IF weights.k = "none" \/ DOMAIN weights.w = {} THEN default_weights ELSE weights.w

\* math.log1p(savings_months) raises ValueError when savings_months <= -1
ra_savings_raises(income, current_savings) ==
    IF income > 0 THEN 12 * current_savings + income <= 0 ELSE current_savings + 1 <= 0

\* TRUE when a statement of risk_assessment.calculate_risk_score raises
ra_raises(a) ==
    \/ ra_savings_raises(a.income, a.current_savings)
    \/ \E n \in SimpleNames : n \notin DOMAIN ra_weights(a.weights)

ra_age_factor(age) ==
    IF age <= 25 THEN FactorOne
    ELSE IF age <= 35 THEN (8 * FactorOne) \div 10
    ELSE IF age <= 45 THEN (6 * FactorOne) \div 10
    ELSE IF age <= 55 THEN (4 * FactorOne) \div 10
    ELSE (2 * FactorOne) \div 10

ra_income_factor(income) ==
    LET capped_income == Min(income, 100000)
    IN  Clamp01((capped_income * FactorOne) \div 100000)

ra_surplus_factor(monthly_surplus, income) ==
    LET surplus == Max(monthly_surplus, 0)
    IN  Clamp01(LogQuot(Log1p(surplus, 1),
                        IF income > 0 THEN Log1p(income, 2) ELSE Log1p(1, 1)))

\* monthly_income = income / 12 if income > 0 else 1
ra_savings_factor(current_savings, income) ==
    Clamp01(LogQuot(IF income > 0 THEN Log1p(12 * current_savings, income)
                                  ELSE Log1p(current_savings, 1),
                    Log1p(60, 1)))

ra_timeline_factor(goals) ==
    IF goals # <<>>
    THEN Clamp01(LogQuot(Log1p(SumMonths(goals), 12 * Len(goals)), Log1p(30, 1)))
    ELSE FactorOne \div 2

ra_tolerance_factor(risk_tolerance) == ((risk_tolerance - 1) * FactorOne) \div 4

\* the factor scores risk_assessment.calculate_risk_score computes
ra_factors(a) ==
    [age |-> ra_age_factor(a.age),
     income |-> ra_income_factor(a.income),
     timeline |-> ra_timeline_factor(a.goals),
     surplus |-> ra_surplus_factor(a.monthly_surplus, a.income),
     savings |-> ra_savings_factor(a.current_savings, a.income),
     tolerance |-> ra_tolerance_factor(a.risk_tolerance)]

\* the weighted sum and the final min(max(risk_score, 0), 1)
ra_weighted_score(w, f) ==
    LET risk_score == SumWeights([n \in SimpleNames |-> w[n] * f[n]], SimpleNames)
    IN  Min(Max(risk_score, 0), ScoreOne)

\* risk_assessment.calculate_risk_score: the score it returns (or that it raised),
\* and the factor scores it computed on the way
ra_calculate_risk_score(a) ==
    IF ra_raises(a)
    THEN [raised |-> TRUE, risk_score |-> 0, locals |-> NoLocals]
    ELSE LET f == ra_factors(a)
         IN  [raised |-> FALSE,
              risk_score |-> ra_weighted_score(ra_weights(a.weights), f),
              locals |-> [factors |-> f]]

\* risk_assessment.get_risk_category_from_score
ra_get_risk_category_from_score(risk_score) ==
    IF risk_score <= ScoreTenths(2)
    THEN [category |-> "Very Conservative",
          allocation |-> [debt |-> Frac(85), equity |-> Frac(15)]]
    ELSE IF risk_score <= ScoreTenths(4)
    THEN [category |-> "Conservative",
          allocation |-> [debt |-> Frac(70), equity |-> Frac(30)]]
    ELSE IF risk_score <= ScoreTenths(6)
    THEN [category |-> "Moderate",
          allocation |-> [debt |-> Frac(55), equity |-> Frac(45)]]
    ELSE IF risk_score <= ScoreTenths(8)
    THEN [category |-> "Growth",
          allocation |-> [debt |-> Frac(35), equity |-> Frac(65)]]
    ELSE [category |-> "Aggressive",
          allocation |-> [debt |-> Frac(20), equity |-> Frac(80)]]

\* fund_filtering.get_risk_category_from_score
ff_get_risk_category_from_score(risk_score) ==
    IF risk_score <= ScoreTenths(2)
    THEN [category |-> "Very Conservative",
          allocation |-> [debt |-> Frac(85), equity |-> Frac(15)]]
    ELSE IF risk_score <= ScoreTenths(4)
    THEN [category |-> "Conservative",
          allocation |-> [debt |-> Frac(70), equity |-> Frac(30)]]
    ELSE IF risk_score <= ScoreTenths(6)
    THEN [category |-> "Moderate",
          allocation |-> [debt |-> Frac(55), equity |-> Frac(45)]]
    ELSE IF risk_score <= ScoreTenths(8)
    THEN [category |-> "Growth",
          allocation |-> [debt |-> Frac(35), equity |-> Frac(65)]]
    ELSE [category |-> "Aggressive",
          allocation |-> [debt |-> Frac(20), equity |-> Frac(80)]]

\* risk_assessment.analyze_user_risk_profile; `score` is what the inner call of
\* calculate_risk_score returned
analyze_user_risk_profile(user_data) ==
    LET r == ra_calculate_risk_score(user_data)
        ca == ra_get_risk_category_from_score(r.risk_score)
    IN  IF r.raised
        THEN [raised |-> TRUE, risk_score |-> 0, risk_category |-> "",
              debt_percentage |-> 0, equity_percentage |-> 0,
              allocation |-> [debt |-> 0, equity |-> 0], score |-> r]
        ELSE [raised |-> FALSE,
              risk_score |-> Round3Score(r.risk_score),
              risk_category |-> ca.category,
              debt_percentage |-> RoundDiv(ca.allocation.debt * 10, Frac(1)),
              equity_percentage |-> RoundDiv(ca.allocation.equity * 10, Frac(1)),
              allocation |-> ca.allocation, score |-> r]

(* ------------------------------------------------------------------ *)
(* modules/fund_filtering.py                                           *)
(*                                                                     *)
(* A fund universe (DataFrame) is the sequence of its rows; a row      *)
(* carries 3yr_return, expense_ratio, sharpe_ratio and alpha in        *)
(* hundredths (12.5 -> 1250) and age_years in years.  The composite    *)
(* score of a fund is the exact fraction num / den, with one den for   *)
(* all the funds scored together.                                      *)
(* ------------------------------------------------------------------ *)

\* the column `col` of a frame, as the sequence of its values
Column(frame, col) == [i \in 1..Len(frame) |-> frame[i][col]]

\* the k-th smallest (k = 0 the smallest) of a non-empty sequence of values
KthSmallest(vals, k) ==
    CHOOSE v \in {vals[i] : i \in 1..Len(vals)} :
        /\ Cardinality({i \in 1..Len(vals) : vals[i] < v}) <= k
        /\ k < Cardinality({i \in 1..Len(vals) : vals[i] <= v})

\* Series.quantile(k/4) with linear interpolation, times 4: the value at position
\* (k/4)(n-1) of the sorted values
QuantileTimes4(vals, k) ==
    LET pos == k * (Len(vals) - 1)
        i == pos \div 4
        r == pos % 4
        lo == KthSmallest(vals, i)
        hi == IF r = 0 THEN lo ELSE KthSmallest(vals, i + 1)
    IN  4 * lo + r * (hi - lo)

\* thresholds.get(category, 2.0), in hundredths
get_expense_threshold(category) ==
    CASE category = "large_cap" -> 200
      [] category = "mid_cap" -> 225
      [] category = "small_cap" -> 250
      [] category = "debt" -> 150
      [] category = "hybrid" -> 200
      [] OTHER -> 200

\* mutant: the frame is not restricted to the category
CategoryFunds_unrestricted(fund_universe, category) == fund_universe

\* fund_universe[fund_universe['category'] == category]
CategoryFunds(fund_universe, category) ==
    SelectSeq(fund_universe, LAMBDA f : f.category = category)

\* mutant: the median of the returns taken over the whole column is not compared
PassesFilters_no_return(category_funds, category, f) ==
    /\ f.expense_ratio < get_expense_threshold(category)
    /\ f.age_years > 3
    /\ 4 * f.sharpe_ratio > QuantileTimes4(Column(category_funds, "sharpe_ratio"), 3)

\* mutant: a fund at the median return and at the 75th percentile passes
PassesFilters_inclusive(category_funds, category, f) ==
    /\ 4 * f.ret >= QuantileTimes4(Column(category_funds, "ret"), 2)
    /\ f.expense_ratio < get_expense_threshold(category)
    /\ f.age_years > 3
    /\ 4 * f.sharpe_ratio >= QuantileTimes4(Column(category_funds, "sharpe_ratio"), 3)

\* the boolean mask of apply_category_filters for the row f of category_funds
PassesFilters(category_funds, category, f) ==
    /\ 4 * f.ret > QuantileTimes4(Column(category_funds, "ret"), 2)
    /\ f.expense_ratio < get_expense_threshold(category)
    /\ f.age_years > 3
    /\ 4 * f.sharpe_ratio > QuantileTimes4(Column(category_funds, "sharpe_ratio"), 3)

apply_category_filters(category_funds, category) ==
    IF category_funds = <<>> THEN <<>>
    ELSE SelectSeq(category_funds,
                   LAMBDA f : PassesFilters(category_funds, category, f))

SeqMin(vals) == CHOOSE v \in {vals[i] : i \in 1..Len(vals)} :
                    \A i \in 1..Len(vals) : v <= vals[i]

SeqMax(vals) == CHOOSE v \in {vals[i] : i \in 1..Len(vals)} :
                    \A i \in 1..Len(vals) : v >= vals[i]

\* mutant: no branch for max_val == min_val
normalize_unguarded(series) ==
    [i \in 1..Len(series) |->
        [num |-> series[i] - SeqMin(series), den |-> SeqMax(series) - SeqMin(series)]]

\* normalize(series) for a non-empty series: each value as the fraction num / den
\* of the range it lies at; series * 0 when max_val == min_val
normalize(series) ==
    LET min_val == SeqMin(series)
        max_val == SeqMax(series)
    IN  IF max_val = min_val
        THEN [i \in 1..Len(series) |-> [num |-> 0, den |-> 1]]
        ELSE [i \in 1..Len(series) |->
                 [num |-> series[i] - min_val, den |-> max_val - min_val]]

Negated(series) == [i \in 1..Len(series) |-> -series[i]]

\* the 'score' column get_top_funds assigns: 0.4 * normalize(3yr_return)
\* + 0.2 * normalize(-expense_ratio) + 0.2 * normalize(sharpe_ratio)
\* + 0.2 * normalize(alpha), over the common denominator
composite_scores(filtered_funds) ==
    LET r == normalize(Column(filtered_funds, "ret"))
        e == normalize(Negated(Column(filtered_funds, "expense_ratio")))
        h == normalize(Column(filtered_funds, "sharpe_ratio"))
        a == normalize(Column(filtered_funds, "alpha"))
    IN  [i \in 1..Len(filtered_funds) |->
            [num |-> 4 * r[i].num * e[i].den * h[i].den * a[i].den
                     + 2 * e[i].num * r[i].den * h[i].den * a[i].den
                     + 2 * h[i].num * r[i].den * e[i].den * a[i].den
                     + 2 * a[i].num * r[i].den * e[i].den * h[i].den,
             den |-> 10 * r[i].den * e[i].den * h[i].den * a[i].den]]

\* the n of nlargest(n, 'score')
TopN == 5

\* a row with its 'score' column
Scored(f, score) ==
    [col \in DOMAIN f \cup {"score"} |-> IF col = "score" THEN score ELSE f[col]]

\* DataFrame.nlargest(n, 'score'): the n rows of highest score in descending
\* order, rows of equal score in their order in the frame (keep='first')
nlargest(n, frame) ==
    LET rank(i) ==
            Cardinality({j \in 1..Len(frame) :
                            \/ frame[j].score.num > frame[i].score.num
                            \/ /\ frame[j].score.num = frame[i].score.num
                               /\ j < i})
        rowAt(k) == CHOOSE i \in 1..Len(frame) : rank(i) = k - 1
    IN  [k \in 1..Min(n, Len(frame)) |-> frame[rowAt(k)]]

\* mutant: the five lowest scores are kept
get_top_funds_nsmallest(filtered_funds) ==
    LET score == composite_scores(filtered_funds)
        frame == [i \in 1..Len(filtered_funds) |->
                     Scored(filtered_funds[i],
                            [num |-> -score[i].num, den |-> score[i].den])]
        kept == nlargest(TopN, frame)
    IN  [k \in 1..Len(kept) |->
            Scored(kept[k], [num |-> -kept[k].score.num, den |-> kept[k].score.den])]

get_top_funds(filtered_funds) ==
    LET score == composite_scores(filtered_funds)
        frame == [i \in 1..Len(filtered_funds) |->
                     Scored(filtered_funds[i], score[i])]
    IN  nlargest(TopN, frame)

\* equity_split and debt_split in dict order, the proportions in tenths
equity_split ==
    << [category |-> "large_cap", split_pct |-> 5],
       [category |-> "mid_cap", split_pct |-> 3],
       [category |-> "small_cap", split_pct |-> 2] >>

debt_split == << [category |-> "debt", split_pct |-> 10] >>

\* one pass of the loops of filter_funds over the sub-categories of `splits`:
\* the entries added to filtered_funds, in order
RECURSIVE SplitEntries(_, _, _)
SplitEntries(fund_universe, base, splits) ==
    IF splits = <<>> THEN <<>>
    ELSE LET category == Head(splits).category
             category_funds == CategoryFunds(fund_universe, category)
             filtered == apply_category_filters(category_funds, category)
             rest == SplitEntries(fund_universe, base, Tail(splits))
         IN  IF category_funds = <<>> \/ filtered = <<>>
             THEN rest
             ELSE << [category |-> category,
                      allocation_pct |-> (base * Head(splits).split_pct) \div 10,
                      funds |-> get_top_funds(filtered)] >> \o rest

\* mutant: a baseline share of exactly 20% counts as meaningful
HybridEntries_inclusive(fund_universe, allocation) ==
    LET category_funds == CategoryFunds(fund_universe, "hybrid")
        filtered == apply_category_filters(category_funds, "hybrid")
    IN  IF /\ allocation.equity >= Frac(20)
           /\ allocation.debt >= Frac(20)
           /\ category_funds # <<>>
           /\ filtered # <<>>
        THEN << [category |-> "hybrid",
                 allocation_pct |->
                     Min(Frac(15), Min((allocation.equity * 2) \div 10,
                                       (allocation.debt * 2) \div 10)),
                 funds |-> get_top_funds(filtered)] >>
        ELSE <<>>

\* step 6 of filter_funds: the hybrid entry, if any
HybridEntries(fund_universe, allocation) ==
    LET category_funds == CategoryFunds(fund_universe, "hybrid")
        filtered == apply_category_filters(category_funds, "hybrid")
    IN  IF /\ allocation.equity > Frac(20)
           /\ allocation.debt > Frac(20)
           /\ category_funds # <<>>
           /\ filtered # <<>>
        THEN << [category |-> "hybrid",
                 allocation_pct |->
                     Min(Frac(15), Min((allocation.equity * 2) \div 10,
                                       (allocation.debt * 2) \div 10)),
                 funds |-> get_top_funds(filtered)] >>
        ELSE <<>>

\* mutant: the hybrid share is taken out of the equity and debt shares
filter_funds_hybrid_carved(fund_universe, risk_score) ==
    LET ca == ff_get_risk_category_from_score(risk_score)
        allocation == ca.allocation
        hybrid == HybridEntries(fund_universe, allocation)
        carve == IF hybrid = <<>> THEN 0 ELSE hybrid[1].allocation_pct \div 2
    IN  [risk_category |-> ca.category,
         filtered_funds |->
             (IF allocation.equity > 0
              THEN SplitEntries(fund_universe, allocation.equity - carve, equity_split)
              ELSE <<>>)
             \o (IF allocation.debt > 0
                 THEN SplitEntries(fund_universe, allocation.debt - carve, debt_split)
                 ELSE <<>>)
             \o hybrid]

\* filter_funds: (risk_category, filtered_funds), the dict filtered_funds as the
\* sequence of its entries in insertion order
filter_funds(fund_universe, risk_score) ==
    LET ca == ff_get_risk_category_from_score(risk_score)
        allocation == ca.allocation
    IN  [risk_category |-> ca.category,
         filtered_funds |->
             (IF allocation.equity > 0
              THEN SplitEntries(fund_universe, allocation.equity, equity_split)
              ELSE <<>>)
             \o (IF allocation.debt > 0
                 THEN SplitEntries(fund_universe, allocation.debt, debt_split)
                 ELSE <<>>)
             \o HybridEntries(fund_universe, allocation)]

\* mutant: the rows a category's filters reject are dropped from fund_universe
\* itself
universe_after_filters_in_place(fund_universe, category) ==
    LET category_funds == CategoryFunds(fund_universe, category)
        filtered == apply_category_filters(category_funds, category)
    IN  SelectSeq(fund_universe,
                  LAMBDA f : \/ f.category # category
                             \/ \E i \in 1..Len(filtered) : filtered[i] = f)

\* the frame fund_universe after one category of it has gone through
\* apply_category_filters and get_top_funds: boolean indexing and .copy() give
\* new frames, and the 'score' column is assigned on the copy
universe_after_filters(fund_universe, category) == fund_universe

\* round(allocation_pct * 100, 1), in tenths of a percent
Percent1(allocation_pct) == RoundDiv(allocation_pct * 10, Frac(1))

RECURSIVE SumAllocation(_)
SumAllocation(entries) ==
    IF entries = <<>> THEN 0
    ELSE Head(entries).allocation_pct + SumAllocation(Tail(entries))

\* funds[['fund_name', 'category', '3yr_return', 'expense_ratio', 'sharpe_ratio',
\* 'score']].to_dict('records')
TopFundRecords(funds) ==
    [i \in 1..Len(funds) |->
        [fund_name |-> funds[i].fund_name, category |-> funds[i].category,
         ret |-> funds[i].ret, expense_ratio |-> funds[i].expense_ratio,
         sharpe_ratio |-> funds[i].sharpe_ratio, score |-> funds[i].score]]

create_portfolio_recommendations(fund_universe, risk_score) ==
    LET ff == filter_funds(fund_universe, risk_score)
        filtered_funds == ff.filtered_funds
    IN  [risk_category |-> ff.risk_category,
         risk_score |-> risk_score,
         total_categories |-> Len(filtered_funds),
         recommendations |->
             [i \in 1..Len(filtered_funds) |->
                 [category |-> filtered_funds[i].category,
                  allocation_percentage |-> Percent1(filtered_funds[i].allocation_pct),
                  fund_count |-> Len(filtered_funds[i].funds),
                  top_funds |-> TopFundRecords(filtered_funds[i].funds)]],
         total_allocation |-> Percent1(SumAllocation(filtered_funds))]

(* ------------------------------------------------------------------ *)
(* Inputs                                                              *)
(* ------------------------------------------------------------------ *)

\* how many fields of one engine profile may hold a value off the base grid
MaxVariants == 1
\* how many goals a profile may hold
MaxGoals == 2
\* how many tenths below 0 and above 1 a score handed to a category mapper may lie
MaxOutOfBand == 2

Goal(months) ==
    [months |-> months,
     amount |-> CASE months = 36 -> 300000
                  [] months = 120 -> 1000000
                  [] OTHER -> 500000]

\* goals dicts in insertion order, keys unique
GoalDicts ==
    { g \in { <<>>, <<Goal(36)>>, <<Goal(60), Goal(120)>>,
              <<Goal(120), Goal(240), Goal(360)>> } : Len(g) <= MaxGoals }

\* weight totals of the configurations an engine is constructed with, in
\* thousandths; a total exactly 0.01 away from 1.0 is left out, since there the
\* outcome of abs(total_weight - 1.0) > 0.01 hangs on float rounding
ConfigTotals == {950, 989, 999, 1000, 1001, 1011, 1050}

ConfigWeights ==
    { [WEIGHTS EXCEPT !.age_factor = @ + (t - WeightOne)] : t \in ConfigTotals }

\* custom weights with negative entries and a total above 1
SkewedWeights ==
    [age_factor |-> 2000, income_factor |-> 100, timeline_factor |-> 100,
     surplus_factor |-> 100, savings_factor |-> 100, risk_tolerance_factor |-> -3000]

\* custom weights stressing the age, totalling 1
HigherAgeWeights ==
    [age_factor |-> 400, income_factor |-> 150, timeline_factor |-> 150,
     surplus_factor |-> 100, savings_factor |-> 100, risk_tolerance_factor |-> 100]

SkewedSimpleWeights ==
    [age |-> 2000, income |-> 100, timeline |-> 100,
     surplus |-> 100, savings |-> 100, tolerance |-> -3000]

ProfileFields ==
    {"age", "monthly_income", "current_savings", "monthly_surplus",
     "risk_tolerance_score", "goals", "custom_weights"}

\* the base grid: values every field accepts as they are
BaseValues ==
    [age |-> {Num(259), Num(460), Num(1000)},
     monthly_income |-> {Num(0), Num(20000), Num(120000)},
     current_savings |-> {Num(200000), Num(1500000)},
     monthly_surplus |-> {Num(25000)},
     risk_tolerance_score |-> {Num(10), Num(100)},
     goals |-> {[k |-> "dict", items |-> <<Goal(36)>>],
                [k |-> "dict", items |-> <<Goal(60), Goal(120)>>]},
     custom_weights |-> {[k |-> "missing", w |-> WEIGHTS],
                         [k |-> "dict", w |-> SkewedWeights]}]

\* off the base grid: absent, None, text, negative, out-of-range and further values
VariantValues ==
    [age |-> {Missing, NoneVal, StrVal, Num(170), Num(180), Num(1010)},
     monthly_income |-> {Missing, NoneVal, StrVal, Num(-5000)},
     current_savings |-> {Missing, NoneVal, StrVal, Num(-1000), Num(0)},
     monthly_surplus |-> {Missing, NoneVal, StrVal, Num(-500), Num(0)},
     risk_tolerance_score |->
         {Missing, NoneVal, StrVal, Num(0), Num(50), Num(105), Num(110)},
     goals |-> {[k |-> "missing", items |-> <<>>],
                [k |-> "none", items |-> <<>>],
                [k |-> "list", items |-> <<Goal(36)>>]},
     custom_weights |-> {[k |-> "none", w |-> WEIGHTS],
                         [k |-> "dict", w |-> default_weights],
                         [k |-> "dict", w |-> HigherAgeWeights]}]

\* the profiles whose fields in S hold a variant value and the others a base value
ProfilesWith(S) ==
    LET V(f) == IF f \in S THEN VariantValues[f] ELSE BaseValues[f]
    IN  [mapping : {TRUE},
         age : V("age"),
         monthly_income : V("monthly_income"),
         current_savings : V("current_savings"),
         monthly_surplus : V("monthly_surplus"),
         risk_tolerance_score : V("risk_tolerance_score"),
         goals : V("goals"),
         custom_weights : V("custom_weights")]

VariantFields(p) == {f \in ProfileFields : p[f] \in VariantValues[f]}

BaseProfiles == ProfilesWith({})

\* a profile that is no mapping at all (user_profile.get raises AttributeError)
NotAMapping ==
    [mapping |-> FALSE, age |-> Missing, monthly_income |-> Missing,
     current_savings |-> Missing, monthly_surplus |-> Missing,
     risk_tolerance_score |-> Missing,
     goals |-> [k |-> "missing", items |-> <<>>],
     custom_weights |-> [k |-> "missing", w |-> WEIGHTS]]

\* a profile scored on its risk tolerance alone: tolerance 5 under a weight of
\* 0.901 scores 0.4004..., just above the bound Conservative and Moderate share
BoundaryProfile ==
    [mapping |-> TRUE, age |-> Num(300), monthly_income |-> Num(75000),
     current_savings |-> Num(10000), monthly_surplus |-> Num(2000),
     risk_tolerance_score |-> Num(50),
     goals |-> [k |-> "dict", items |-> <<Goal(36)>>],
     custom_weights |->
         [k |-> "dict",
          w |-> [age_factor |-> 0, income_factor |-> 0, timeline_factor |-> 0,
                 surplus_factor |-> 0, savings_factor |-> 0,
                 risk_tolerance_factor |-> 901]]]

EngineProfiles ==
    UNION { ProfilesWith(S) :
              S \in {T \in SUBSET ProfileFields : Cardinality(T) <= MaxVariants} }
    \cup {NotAMapping, BoundaryProfile}

\* arguments of the module-level risk_assessment functions
RaArgs ==
    [age : {25, 55, 60},
     income : {-5000, 0, 20000, 120000},
     current_savings : {-30000, -1000, 200000, 1500000},
     monthly_surplus : {-500, 20000},
     goals : GoalDicts,
     risk_tolerance : {0, 2, 5, 10},
     weights : {[k |-> "none", w |-> default_weights],
                [k |-> "dict", w |-> SkewedSimpleWeights],
                [k |-> "dict", w |-> WEIGHTS]}]

\* the older investor of the sample run of risk_assessment.py
older_investor ==
    [age |-> 55, income |-> 120000, current_savings |-> 1500000,
     monthly_surplus |-> 20000, goals |-> <<Goal(36)>>, risk_tolerance |-> 2,
     weights |-> [k |-> "none", w |-> default_weights]]

\* user_data analysed directly
AnalyzeArgs == {x \in RaArgs : x.weights.k = "none"}

\* what the dashboard's widgets let a user enter (streamlit_app.main)
DashboardData ==
    [age : {18, 65},
     income : {20000, 500000},
     current_savings : {0, 5000000},
     monthly_surplus : {1000, 100000},
     goals : { <<Goal(36), Goal(60)>>, <<Goal(60)>>, <<Goal(240), Goal(300)>> },
     risk_tolerance : {1, 5, 6, 10},
     weights : {[k |-> "none", w |-> default_weights]}]
    \cup { [age |-> a, income |-> 75000, current_savings |-> 10000,
            monthly_surplus |-> 2000, goals |-> <<Goal(36), Goal(60)>>,
            risk_tolerance |-> t,
            weights |-> [k |-> "none", w |-> default_weights]] :
              a \in {18, 30}, t \in {2, 8} }

\* one row of a fund universe; fund_name is the number of the fund
Row(fund_name, category, ret, expense_ratio, sharpe_ratio, alpha, age_years) ==
    [fund_name |-> fund_name, category |-> category, ret |-> ret,
     expense_ratio |-> expense_ratio, sharpe_ratio |-> sharpe_ratio,
     alpha |-> alpha, age_years |-> age_years]

\* streamlit_app.load_sample_fund_data(): four funds in each of five categories
SampleFunds ==
    << Row(1, "large_cap", 1250, 105, 85, 210, 15),
       Row(2, "large_cap", 1380, 115, 92, 280, 12),
       Row(3, "large_cap", 1120, 195, 78, 150, 20),
       Row(4, "large_cap", 1280, 125, 88, 230, 18),
       Row(5, "mid_cap", 1560, 189, 88, 320, 8),
       Row(6, "mid_cap", 1680, 210, 95, 380, 10),
       Row(7, "mid_cap", 1490, 175, 82, 290, 7),
       Row(8, "mid_cap", 1520, 195, 89, 310, 9),
       Row(9, "small_cap", 1820, 215, 75, 410, 6),
       Row(10, "small_cap", 1950, 205, 88, 450, 9),
       Row(11, "small_cap", 1780, 230, 72, 370, 5),
       Row(12, "small_cap", 1890, 220, 85, 420, 7),
       Row(13, "debt", 780, 45, 125, 120, 12),
       Row(14, "debt", 810, 55, 118, 140, 18),
       Row(15, "debt", 750, 48, 122, 110, 8),
       Row(16, "debt", 790, 52, 120, 130, 14),
       Row(17, "hybrid", 1020, 125, 95, 220, 14),
       Row(18, "hybrid", 980, 135, 89, 190, 16),
       Row(19, "hybrid", 1050, 145, 92, 240, 11),
       Row(20, "hybrid", 950, 138, 87, 180, 13) >>

FundCategories == {"large_cap", "mid_cap", "small_cap", "debt", "hybrid"}

CategoryNumber(category) ==
    CASE category = "large_cap" -> 1
      [] category = "mid_cap" -> 2
      [] category = "small_cap" -> 3
      [] category = "debt" -> 4
      [] category = "hybrid" -> 5

\* how many funds of a generated category lie above the category's median return
\* and 75th percentile of the Sharpe ratio
MaxStrong == 6
\* how many funds far below them a generated category holds besides
MaxWeak == 19

\* n weak funds of a category: low return, low Sharpe ratio
WeakFunds(category, n) ==
    [i \in 1..n |-> Row(100 * CategoryNumber(category) + i, category,
                        1000, 100, 50, 100, 10)]

\* the strong funds of a category, by the shape of their figures:
\*   "spread"  all four figures differ from fund to fund
\*   "pairs"   funds 2k-1 and 2k have the same figures
\*   "same"    all funds have the same figures
\*   "flawed"  as "spread", but fund 1 is 3 years old and fund 2 costs 3.00
\*   "ranked"  every figure is better from fund to fund
StrongFunds(category, n, shape) ==
    [i \in 1..n |->
        LET k == CASE shape = "pairs" -> (i + 1) \div 2
                   [] shape = "same" -> 0
                   [] OTHER -> i
        IN  Row(100 * CategoryNumber(category) + 50 + i, category,
                1200 + 2 * k,
                CASE shape = "flawed" /\ i = 2 -> 300
                  [] shape = "ranked" -> 120 - k
                  [] OTHER -> 100 + (k % 3),
                IF shape = "ranked" THEN 100 + k ELSE 100 + ((k * k) % 5),
                IF shape = "ranked" THEN 200 + k ELSE 200 + ((3 * k) % 7),
                IF shape = "flawed" /\ i = 1 THEN 3 ELSE 5 + i)]

\* a generated category: a weak funds, then a fund of high return and low Sharpe
\* ratio and one of low return and high Sharpe ratio, then the strong funds
GeneratedCategory(category, weak, strong, shape) ==
    WeakFunds(category, weak)
    \o << Row(100 * CategoryNumber(category) + 41, category, 1300, 100, 50, 300, 10),
          Row(100 * CategoryNumber(category) + 42, category, 1000, 100, 140, 300, 10) >>
    \o StrongFunds(category, strong, shape)

Shapes == {"spread", "pairs", "same", "flawed", "ranked"}

\* the sample universe without the funds of one category
SampleWithout(category) == SelectSeq(SampleFunds, LAMBDA f : f.category # category)

\* a universe in which every category has one fund that passes the filters
FullUniverse ==
    GeneratedCategory("large_cap", 4, 1, "same")
    \o GeneratedCategory("mid_cap", 4, 1, "same")
    \o GeneratedCategory("small_cap", 4, 1, "same")
    \o GeneratedCategory("debt", 4, 1, "same")
    \o GeneratedCategory("hybrid", 4, 1, "same")

\* funds whose category is none of the five: figures better than any other fund's
UnknownFunds ==
    << Row(901, "sectoral", 2500, 50, 200, 500, 10),
       Row(902, "sectoral", 2600, 40, 210, 600, 12),
       Row(903, "", 2700, 30, 220, 700, 14) >>

\* a category of cheap, old funds that are alone ("single"), share one return
\* ("same_return") or share one Sharpe ratio ("same_sharpe")
DegenerateCategory(category, kind) ==
    LET n == 100 * CategoryNumber(category) + 60
    IN  CASE kind = "single" ->
                 << Row(n + 1, category, 3000, 10, 300, 900, 20) >>
          [] kind = "same_return" ->
                 << Row(n + 1, category, 1500, 10, 50, 100, 20),
                    Row(n + 2, category, 1500, 20, 100, 500, 20),
                    Row(n + 3, category, 1500, 30, 150, 900, 20) >>
          [] OTHER ->
                 << Row(n + 1, category, 1000, 10, 100, 100, 20),
                    Row(n + 2, category, 1500, 20, 100, 500, 20),
                    Row(n + 3, category, 2000, 30, 100, 900, 20) >>

\* fund universes handed to filter_funds / create_portfolio_recommendations
FundUniverses ==
    {SampleFunds}
    \cup {SampleWithout(c) \o DegenerateCategory(c, kind) :
             c \in {"large_cap", "hybrid"},
             kind \in {"single", "same_return", "same_sharpe"}}
    \cup {UnknownFunds, SampleFunds \o UnknownFunds, UnknownFunds \o FullUniverse}
    \cup {SampleWithout(c) : c \in FundCategories}
    \cup {SampleWithout(c) \o GeneratedCategory(c, MaxWeak, MaxStrong, shape) :
             c \in {"large_cap", "hybrid"}, shape \in Shapes}
    \cup {FullUniverse}
    \cup {GeneratedCategory("large_cap", MaxWeak - 2, strong, "spread")
          \o GeneratedCategory("debt", 4, 2, "pairs")
          \o GeneratedCategory("mid_cap", 4, 1, "same")
          \o GeneratedCategory("hybrid", 4, 2, "spread") :
             strong \in {1, MaxStrong - 1, MaxStrong}}

\* risk scores handed to filter_funds: inside each band, on a boundary, out of band
FundScores ==
    {ScoreTenths(t) : t \in {-1, 1, 2, 3, 5, 7, 9, 11}}

\* scores handed to a category mapper: every twentieth from below 0 to above 1,
\* and the nearest neighbours of each
ScoreGrid ==
    { (t * ScoreOne) \div 20 + d :
        t \in (0 - 2 * MaxOutOfBand) .. (20 + 2 * MaxOutOfBand), d \in {-1, 0, 1} }

Mappers == {"engine", "risk_assessment", "fund_filtering"}

\* the inputs of the repeated calls: two valid configurations and one that
\* _validate_config rejects, a profile with and without custom weights, the older
\* investor, a universe and two scores
ProbeConfigs ==
    { [WEIGHTS EXCEPT !.age_factor = @ + (t - WeightOne)] : t \in {1000, 1001, 1050} }

ProbeProfile ==
    [mapping |-> TRUE, age |-> Num(460), monthly_income |-> Num(20000),
     current_savings |-> Num(200000), monthly_surplus |-> Num(25000),
     risk_tolerance_score |-> Num(100),
     goals |-> [k |-> "dict", items |-> <<Goal(36)>>],
     custom_weights |-> [k |-> "missing", w |-> WEIGHTS]]

ProbeProfiles ==
    {ProbeProfile,
     [ProbeProfile EXCEPT !.custom_weights = [k |-> "dict", w |-> HigherAgeWeights]]}

ProbeArgs == {older_investor}

\* arguments of the legacy calculate_risk_score: weights left out, keyed as
\* risk_assessment.calculate_risk_score expects them, or keyed by factor
LegacyArgs ==
    [age : {25, 55},
     income : {20000, 120000},
     current_savings : {200000},
     monthly_surplus : {20000},
     goals : GoalDicts,
     risk_tolerance : {2, 5},
     weights : {[k |-> "none", w |-> default_weights],
                [k |-> "dict", w |-> default_weights],
                [k |-> "dict", w |-> SkewedSimpleWeights],
                [k |-> "dict", w |-> HigherAgeWeights]}]

\* base profiles of a sensitivity analysis: the two above and one whose savings
\* are text, for which every scoring falls back
SensitivityProfiles ==
    ProbeProfiles \cup {[ProbeProfile EXCEPT !.current_savings = StrVal]}

\* variations dicts in insertion order: the same variations alone, together and
\* in both orders
SensitivityVariations ==
    LET age == [param |-> "age", values |-> <<Num(259), Num(1000), Num(1010)>>]
        ega == [param |-> "age", values |-> <<Num(1010), Num(259)>>]
        tol == [param |-> "risk_tolerance_score", values |-> <<Num(10), StrVal>>]
        sav == [param |-> "current_savings", values |-> <<Num(1500000)>>]
    IN  { <<>>, <<age>>, <<ega>>, <<tol>>, <<age, tol>>, <<tol, age>>,
          <<sav, tol, ega>>, <<tol, sav>> }

ProbeUniverses == {FullUniverse}

ProbeScores == {ScoreTenths(3), ScoreTenths(9)}

(* ------------------------------------------------------------------ *)
(* The state machine                                                   *)
(* ------------------------------------------------------------------ *)

Idle == [op |-> "idle"]

NoHistory == [config |-> WEIGHTS, engine_score |-> {}, ra_score |-> {}, recommend |-> {}]

Init ==
    /\ engine = [status |-> "none", WEIGHTS |-> WEIGHTS]
    /\ call = Idle
    /\ history = NoHistory

\* RiskAssessmentEngine.__init__ (main.py constructs the engine): _validate_config
\* raises and no engine comes to exist, or the caller holds a new engine
ConstructCall(weights) ==
    /\ call' = [op |-> "construct",
                weights |-> weights,
                raised |-> validate_config_raises(weights)]
    /\ engine' = IF validate_config_raises(weights)
                 THEN engine
                 ELSE [status |-> "ready", WEIGHTS |-> weights]

Construct ==
    /\ call = Idle
    /\ \E weights \in ConfigWeights : ConstructCall(weights)
    /\ UNCHANGED history

\* mutant: the custom weights of a profile stay behind in the engine's configuration
EngineScoreCall_leaking(user_profile) ==
    LET run == calculate_risk_score(engine.WEIGHTS, user_profile)
    IN  /\ call' = [op |-> "engine_score",
                    profile |-> user_profile,
                    result |-> run.result,
                    logged_error |-> run.logged_error,
                    locals |-> run.locals]
        /\ engine' = IF user_profile.custom_weights.k = "dict"
                     THEN [engine EXCEPT !.WEIGHTS = user_profile.custom_weights.w]
                     ELSE engine

\* engine.calculate_risk_score(user_profile)
EngineScoreCall(user_profile) ==
    LET run == calculate_risk_score(engine.WEIGHTS, user_profile)
    IN  /\ call' = [op |-> "engine_score",
                    profile |-> user_profile,
                    result |-> run.result,
                    logged_error |-> run.logged_error,
                    locals |-> run.locals]
        /\ UNCHANGED engine

EngineScore ==
    /\ call = Idle
    /\ engine.status = "ready"
    /\ \E user_profile \in (IF engine.WEIGHTS = WEIGHTS THEN EngineProfiles
                                                        ELSE BaseProfiles) :
         EngineScoreCall(user_profile)
    /\ UNCHANGED history

\* engine.analyze_risk_sensitivity(base_profile, variations)
Sensitivity ==
    /\ call = Idle
    /\ engine.status = "ready"
    /\ \E base_profile \in SensitivityProfiles, variations \in SensitivityVariations :
         call' = [op |-> "sensitivity",
                  base_profile |-> base_profile,
                  variations |-> variations,
                  result |-> analyze_risk_sensitivity(engine.WEIGHTS, base_profile,
                                                      variations)]
    /\ UNCHANGED <<engine, history>>

\* The dashboard process (streamlit_app.py) imports risk_assessment and
\* fund_filtering only and never constructs an engine; their functions read no
\* engine, so they are taken in the states where none exists.

\* risk_assessment.calculate_risk_score(age, income, ...)
RaScoreCall(a) ==
    /\ call' = [op |-> "ra_score", args |-> a, result |-> ra_calculate_risk_score(a)]
    /\ UNCHANGED engine

RaScore ==
    /\ call = Idle
    /\ engine.status = "none"
    /\ \E a \in RaArgs : RaScoreCall(a)
    /\ UNCHANGED history

\* risk_assessment.analyze_user_risk_profile(user_data)
RaAnalyze ==
    /\ call = Idle
    /\ engine.status = "none"
    /\ \E user_data \in AnalyzeArgs :
         call' = [op |-> "ra_analyze",
                  args |-> user_data,
                  result |-> analyze_user_risk_profile(user_data)]
    /\ UNCHANGED <<engine, history>>

\* streamlit_app.main: the button stores user_data, the page analyses it
Dashboard ==
    /\ call = Idle
    /\ engine.status = "none"
    /\ \E user_data \in DashboardData :
         LET risk_result == analyze_user_risk_profile(user_data)
         IN  call' = [op |-> "dashboard",
                      args |-> user_data,
                      result |-> risk_result,
                      portfolio |->
                          IF risk_result.raised THEN <<>>
                          ELSE << create_portfolio_recommendations(
                                      SampleFunds,
                                      risk_result.risk_score * (ScoreOne \div 1000)) >>]
    /\ UNCHANGED <<engine, history>>

\* one of the three score-to-category mappers; the engine's is a method
Categorize ==
    /\ call = Idle
    /\ \E mapper \in Mappers, risk_score \in ScoreGrid :
         /\ IF mapper = "engine" THEN engine.status = "ready"
                                 ELSE engine.status = "none"
         /\ call' = [op |-> "categorize",
                     mapper |-> mapper,
                     risk_score |-> risk_score,
                     result |->
                         CASE mapper = "engine" ->
                                  get_risk_category_and_allocation(risk_score)
                           [] mapper = "risk_assessment" ->
                                  ra_get_risk_category_from_score(risk_score)
                           [] mapper = "fund_filtering" ->
                                  ff_get_risk_category_from_score(risk_score)]
    /\ UNCHANGED <<engine, history>>

\* risk_assessment_complex.get_risk_category_from_score(risk_score): it constructs
\* its own engine, so it can be called whether or not the caller holds one
LegacyCategorize ==
    /\ call = Idle
    /\ \E risk_score \in ScoreGrid :
         call' = [op |-> "legacy_categorize",
                  risk_score |-> risk_score,
                  result |-> legacy_get_risk_category_from_score(risk_score)]
    /\ UNCHANGED <<engine, history>>

\* risk_assessment_complex.calculate_risk_score(age, income, ...), the legacy
\* wrapper
LegacyScore ==
    /\ call = Idle
    /\ \E a \in LegacyArgs :
         call' = [op |-> "legacy_score",
                  args |-> a,
                  result |-> legacy_calculate_risk_score(a)]
    /\ UNCHANGED <<engine, history>>

\* fund_filtering.create_portfolio_recommendations(fund_universe, risk_score), with
\* what its call of filter_funds returned
RecommendCall(fund_universe, risk_score) ==
    /\ call' = [op |-> "recommend",
                fund_universe |-> fund_universe,
                risk_score |-> risk_score,
                filtered |-> filter_funds(fund_universe, risk_score),
                result |-> create_portfolio_recommendations(fund_universe, risk_score)]
    /\ UNCHANGED engine

Recommend ==
    /\ call = Idle
    /\ engine.status = "none"
    /\ \E fund_universe \in FundUniverses, risk_score \in FundScores :
         RecommendCall(fund_universe, risk_score)
    /\ UNCHANGED history

\* the call returns to its caller
Return ==
    /\ call # Idle
    /\ call' = Idle
    /\ UNCHANGED <<engine, history>>

Next ==
    \/ Construct
    \/ EngineScore
    \/ Sensitivity
    \/ RaScore
    \/ RaAnalyze
    \/ Dashboard
    \/ Categorize
    \/ LegacyCategorize
    \/ LegacyScore
    \/ Recommend
    \/ Return

Spec == Init /\ [][Next]_vars

(* ------------------------------------------------------------------ *)
(* Repeated calls.  The same operations on a few inputs, each call's   *)
(* result kept in history when it returns: the first result seen for   *)
(* an input, for an engine call whether the engine that gave it has   *)
(* been replaced since, for a module-level call how often the input    *)
(* has been seen.                                                      *)
(* ------------------------------------------------------------------ *)

\* how often the input of a module-level call is counted
MaxSeen == 2

\* the observations of a set that have the input of observation o
SameInput(seen, o, fields) ==
    {x \in seen : \A f \in fields : x[f] = o[f]}

\* the set of observations after observation o: the first for its input is kept,
\* a later one only counted
Observe(seen, o, fields) ==
    IF SameInput(seen, o, fields) = {}
    THEN seen \cup {o}
    ELSE {IF x \in SameInput(seen, o, fields) /\ "times" \in DOMAIN x
          THEN [x EXCEPT !.times = Min(@ + 1, MaxSeen)] ELSE x : x \in seen}

ProbeConstruct ==
    /\ call = Idle
    /\ \E weights \in ProbeConfigs :
         /\ ConstructCall(weights)
         /\ history' = IF validate_config_raises(weights)
                       THEN history
                       ELSE [history EXCEPT
                                !.config = weights,
                                !.engine_score =
                                    {[o EXCEPT !.instance = "earlier"] : o \in @}]

ProbeEngineScore ==
    /\ call = Idle
    /\ engine.status = "ready"
    /\ \E user_profile \in ProbeProfiles : EngineScoreCall(user_profile)
    /\ UNCHANGED history

ProbeRaScore ==
    /\ call = Idle
    /\ engine.status = "none"
    /\ \E a \in ProbeArgs : RaScoreCall(a)
    /\ UNCHANGED history

ProbeRecommend ==
    /\ call = Idle
    /\ engine.status = "none"
    /\ \E fund_universe \in ProbeUniverses, risk_score \in ProbeScores :
         RecommendCall(fund_universe, risk_score)
    /\ UNCHANGED history

\* the call returns and its result is kept
Record ==
    /\ call # Idle
    /\ call' = Idle
    /\ UNCHANGED engine
    /\ history' =
           CASE call.op = "engine_score" ->
                    [history EXCEPT !.engine_score =
                        Observe(@, [config |-> history.config,
                                    profile |-> call.profile,
                                    result |-> call.result,
                                    logged_error |-> call.logged_error,
                                    instance |-> "present"],
                                {"config", "profile"})]
             [] call.op = "ra_score" ->
                    [history EXCEPT !.ra_score =
                        Observe(@, [args |-> call.args, result |-> call.result,
                                    times |-> 1],
                                {"args"})]
             [] call.op = "recommend" ->
                    [history EXCEPT !.recommend =
                        Observe(@, [fund_universe |-> call.fund_universe,
                                    risk_score |-> call.risk_score,
                                    filtered |-> call.filtered,
                                    result |-> call.result,
                                    times |-> 1],
                                {"fund_universe", "risk_score"})]
             [] OTHER -> history

RepeatNext ==
    \/ ProbeConstruct
    \/ ProbeEngineScore
    \/ ProbeRaScore
    \/ ProbeRecommend
    \/ Record

RepeatSpec == Init /\ [][RepeatNext]_vars

(* ------------------------------------------------------------------ *)
(* Two requests in flight at once                                      *)
(* ------------------------------------------------------------------ *)

\* profiles scored concurrently on one engine: without custom weights, with
\* custom weights, with a table that lacks the factor keys
InterleaveProfiles ==
    ProbeProfiles
    \cup {BoundaryProfile,
          [ProbeProfile EXCEPT !.custom_weights = [k |-> "dict", w |-> default_weights]]}

InterleaveScores == ProbeScores \cup {ScoreTenths(5)}

InterleaveUniverses == {FullUniverse, SampleFunds}

\* the categories filter_funds goes through, in the order of its steps 4, 5, 6
Passes == <<"large_cap", "mid_cap", "small_cap", "debt", "hybrid">>

\* the switches from one request to the other are counted up to MaxSwitches
MaxSwitches == 2

Requests == {1, 2}

\* request i has taken a step: who ran last, and how often the turn has changed
Turn(i) ==
    [last |-> i,
     switches |-> IF call.turn.last \in {0, i} THEN call.turn.switches
                  ELSE Min(call.turn.switches + 1, MaxSwitches)]

NotStarted == [last |-> 0, switches |-> 0]

\* two callers enter calculate_risk_score of the one engine
SubmitEngine ==
    /\ call = Idle
    /\ engine.status = "ready"
    /\ \E p1 \in InterleaveProfiles, p2 \in InterleaveProfiles :
         call' = [op |-> "engine_pair",
                  supplied |-> [profiles |-> <<p1, p2>>, config |-> engine.WEIGHTS],
                  profiles |-> <<p1, p2>>,
                  req |-> [i \in Requests |->
                              [pc |-> "validate", fields |-> NoLocals,
                               custom |-> NoLocals, config |-> NoLocals,
                               result |-> NoLocals]],
                  turn |-> NotStarted]
    /\ UNCHANGED <<engine, history>>

\* lines 77-86 of calculate_risk_score: the fields of the profile are read
EngineValidate ==
    /\ call # Idle
    /\ call.op = "engine_pair"
    /\ \E i \in Requests :
         /\ call.req[i].pc = "validate"
         /\ call' = [call EXCEPT !.req[i].pc = "weights",
                                 !.req[i].fields = call.profiles[i],
                                 !.turn = Turn(i)]
    /\ UNCHANGED <<engine, history>>

\* line 89: weights = user_profile.get('custom_weights', self.config.WEIGHTS)
EngineWeights ==
    /\ call # Idle
    /\ call.op = "engine_pair"
    /\ \E i \in Requests :
         /\ call.req[i].pc = "weights"
         /\ call' = [call EXCEPT !.req[i].pc = "compute",
                                 !.req[i].custom = call.profiles[i].custom_weights,
                                 !.req[i].config = engine.WEIGHTS,
                                 !.turn = Turn(i)]
    /\ UNCHANGED <<engine, history>>

\* lines 91-137: factors, score, category and the returned dict, or the fallback,
\* from what the request has read
EngineCompute ==
    /\ call # Idle
    /\ call.op = "engine_pair"
    /\ \E i \in Requests :
         /\ call.req[i].pc = "compute"
         /\ call' = [call EXCEPT
                        !.req[i].pc = "done",
                        !.req[i].result =
                            calculate_risk_score(
                                call.req[i].config,
                                [call.req[i].fields EXCEPT
                                    !.custom_weights = call.req[i].custom]).result,
                        !.turn = Turn(i)]
    /\ UNCHANGED <<engine, history>>

\* two callers enter filter_funds with the one fund_universe
SubmitFunds ==
    /\ call = Idle
    /\ \E fund_universe \in InterleaveUniverses,
          s1 \in InterleaveScores, s2 \in InterleaveScores :
         call' = [op |-> "funds_pair",
                  supplied |-> [fund_universe |-> fund_universe,
                                risk_score |-> <<s1, s2>>],
                  fund_universe |-> fund_universe,
                  req |-> [i \in Requests |->
                              [pc |-> 0, ca |-> NoLocals, entries |-> <<>>,
                               result |-> NoLocals]],
                  turn |-> NotStarted]
    /\ UNCHANGED <<engine, history>>

\* step 1 of filter_funds: risk category and allocation of the request's score
FundsStart ==
    /\ call # Idle
    /\ call.op = "funds_pair"
    /\ \E i \in Requests :
         /\ call.req[i].pc = 0
         /\ call' = [call EXCEPT
                        !.req[i].pc = 1,
                        !.req[i].ca =
                            ff_get_risk_category_from_score(
                                call.supplied.risk_score[i]),
                        !.turn = Turn(i)]
    /\ UNCHANGED <<engine, history>>

\* TRUE when pass k of a request with this allocation selects its category
PassRuns(k, allocation) ==
    CASE k <= Len(equity_split) -> allocation.equity > 0
      [] k = Len(equity_split) + 1 -> allocation.debt > 0
      [] OTHER -> allocation.equity > Frac(20) /\ allocation.debt > Frac(20)

\* the entries pass k adds to filtered_funds
PassEntries(fund_universe, k, allocation) ==
    CASE k <= Len(equity_split) ->
             IF allocation.equity > 0
             THEN SplitEntries(fund_universe, allocation.equity, <<equity_split[k]>>)
             ELSE <<>>
      [] k = Len(equity_split) + 1 ->
             IF allocation.debt > 0
             THEN SplitEntries(fund_universe, allocation.debt, debt_split)
             ELSE <<>>
      [] OTHER -> HybridEntries(fund_universe, allocation)

\* one iteration of the loops of steps 4 and 5, or step 6, of filter_funds: the
\* category is selected from fund_universe, filtered, scored and cut to the top
\* five; after the last one the request returns
FundsPass ==
    /\ call # Idle
    /\ call.op = "funds_pair"
    /\ \E i \in Requests :
         LET k == call.req[i].pc
             allocation == call.req[i].ca.allocation
             entries == call.req[i].entries
                        \o PassEntries(call.fund_universe, k, allocation)
         IN  /\ k \in 1..Len(Passes)
             /\ call' = [call EXCEPT
                            !.req[i].pc = k + 1,
                            !.req[i].entries = entries,
                            !.req[i].result =
                                IF k = Len(Passes)
                                THEN [risk_category |-> call.req[i].ca.category,
                                      filtered_funds |-> entries]
                                ELSE NoLocals,
                            !.fund_universe =
                                IF PassRuns(k, allocation)
                                THEN universe_after_filters(@, Passes[k])
                                ELSE @,
                            !.turn = Turn(i)]
    /\ UNCHANGED <<engine, history>>

\* request i of the pair has returned
Finished(i) ==
    \/ call.op = "engine_pair" /\ call.req[i].pc = "done"
    \/ call.op = "funds_pair" /\ call.req[i].pc = Len(Passes) + 1

\* the constructor has returned, or both requests have
Join ==
    /\ call # Idle
    /\ call.op \in {"engine_pair", "funds_pair"} => \A i \in Requests : Finished(i)
    /\ call' = Idle
    /\ UNCHANGED <<engine, history>>

InterleaveNext ==
    \/ Construct
    \/ SubmitEngine
    \/ EngineValidate
    \/ EngineWeights
    \/ EngineCompute
    \/ SubmitFunds
    \/ FundsStart
    \/ FundsPass
    \/ Join

InterleaveSpec == Init /\ [][InterleaveNext]_vars

(* ------------------------------------------------------------------ *)
(* Properties                                                          *)
(* ------------------------------------------------------------------ *)

\* the weighted sum of a non-failing engine call before it is clamped
RawEngineSum ==
    SumWeights([n \in FactorNames |-> call.locals.weights[n] * call.locals.factors[n]],
               FactorNames)

RaOps == {"ra_score", "ra_analyze", "dashboard"}

\* what risk_assessment.calculate_risk_score returned in the current call
RaInner == IF call.op = "ra_score" THEN call.result ELSE call.result.score

\* C1: every risk score a scoring entry point returns lies in [0,1]: the engine's
\* (the rounded score of the result, the fallback's included, and the score it
\* was rounded from) and the module-level calculate_risk_score's, whatever the
\* weights are.
C1_ScoreInUnitInterval ==
    /\ call.op = "engine_score" =>
         /\ 0 <= call.result.risk_score /\ call.result.risk_score <= 1000
         /\ ~call.logged_error =>
              0 <= call.locals.risk_score /\ call.locals.risk_score <= ScoreOne
    /\ (call.op \in RaOps /\ ~RaInner.raised) =>
         0 <= RaInner.risk_score /\ RaInner.risk_score <= ScoreOne
    /\ (call.op \in {"ra_analyze", "dashboard"} /\ ~call.result.raised) =>
         0 <= call.result.risk_score /\ call.result.risk_score <= 1000

\* C1 witness: an engine call under custom weights whose weighted sum exceeds 1
C1_Witness ==
    /\ call.op = "engine_score"
    /\ ~call.logged_error
    /\ call.profile.custom_weights = [k |-> "dict", w |-> SkewedWeights]
    /\ RawEngineSum > ScoreOne
    /\ call.locals.risk_score = ScoreOne

\* the band of the stated convention that holds s: [0,0.2], (0.2,0.4], (0.4,0.6],
\* (0.6,0.8], (0.8,1.0]
StatedBands ==
    << [lo |-> 0, hi |-> 2, category |-> "Very Conservative"],
       [lo |-> 2, hi |-> 4, category |-> "Conservative"],
       [lo |-> 4, hi |-> 6, category |-> "Moderate"],
       [lo |-> 6, hi |-> 8, category |-> "Growth"],
       [lo |-> 8, hi |-> 10, category |-> "Aggressive"] >>

InStatedBand(s, b) ==
    /\ IF b.lo = 0 THEN 0 <= s ELSE ScoreTenths(b.lo) < s
    /\ s <= ScoreTenths(b.hi)

\* C2: for a score in [0,1] each of the three category mappers returns the category
\* of the one stated band that holds the score; 0 maps to Very Conservative and
\* 0.2, 0.4, 0.6, 0.8 map to the lower band.
C2_CategoryOfBand ==
    (call.op = "categorize" /\ 0 <= call.risk_score /\ call.risk_score <= ScoreOne) =>
        /\ Cardinality({i \in 1..5 : InStatedBand(call.risk_score, StatedBands[i])}) = 1
        /\ \A i \in 1..5 :
               InStatedBand(call.risk_score, StatedBands[i]) =>
                   call.result.category = StatedBands[i].category

\* C2 witness: the engine's mapper on the boundary 0.2, where two of its closed
\* bands match, returns the lower one
C2_Witness ==
    /\ call.op = "categorize"
    /\ call.mapper = "engine"
    /\ call.risk_score = ScoreTenths(2)
    /\ call.result.category = "Very Conservative"

\* the failures the claim names: a savings value that is None or text, a profile
\* that is no mapping, a weight table that lacks a factor
NamedFailure(p) ==
    \/ ~p.mapping
    \/ p.current_savings.k \in {"none", "str"}
    \/ /\ p.custom_weights.k = "dict"
       /\ \E n \in FactorNames : n \notin DOMAIN p.custom_weights.w

IsFallback(r) ==
    /\ r.risk_score = 300
    /\ r.risk_category = "Conservative"
    /\ r.debt_allocation = 70
    /\ r.equity_allocation = 30
    /\ r.error

\* C3: the engine's calculate_risk_score never lets an exception reach its caller;
\* when a step of scoring fails it returns the fixed fallback (0.3, Conservative,
\* 70/30, with the 'error' entry), and a result produced without a failure carries
\* no 'error' entry.
C3_FallbackOnFailure ==
    call.op = "engine_score" =>
        /\ ~call.result.raised
        /\ (call.logged_error \/ NamedFailure(call.profile)) => IsFallback(call.result)
        /\ ~call.logged_error => ~call.result.error

\* C3 witness: a profile whose savings are None is answered with the fallback
C3_Witness ==
    /\ call.op = "engine_score"
    /\ call.profile.current_savings = NoneVal
    /\ call.logged_error
    /\ IsFallback(call.result)

WeightTotal(w) == SumWeights(w, DOMAIN w)

\* C4: constructing an engine fails whenever the configured weights total more
\* than 0.01 away from 1.0 (0.95 and 1.05 among them), and then no engine with
\* those weights exists to serve a request; it succeeds for every total in
\* [0.999, 1.001].
C4_WeightValidation ==
    /\ call.op = "construct" =>
         /\ Abs(WeightTotal(call.weights) - 1000) > 10 =>
              /\ call.raised
              /\ ~(engine.status = "ready" /\ engine.WEIGHTS = call.weights)
         /\ (999 <= WeightTotal(call.weights) /\ WeightTotal(call.weights) <= 1001) =>
              /\ ~call.raised
              /\ engine = [status |-> "ready", WEIGHTS |-> call.weights]
    /\ call.op = "engine_score" => Abs(WeightTotal(engine.WEIGHTS) - 1000) <= 10

\* C4 witness: weights totalling 0.95 are refused
C4_Witness ==
    /\ call.op = "construct"
    /\ WeightTotal(call.weights) = 950
    /\ call.raised

\* what the claim calls a bad value of each of the five numeric fields
BadAge(raw) ==
    raw.k # "num" \/ IntOfTenths(raw.v) < 18 \/ IntOfTenths(raw.v) > 100

BadAmount(raw) == raw.k # "num" \/ raw.v < 0

BadTolerance(raw) ==
    raw.k # "num" \/ IntOfTenths(raw.v) < 1 \/ IntOfTenths(raw.v) > 10

BadFields(p) ==
    {f \in {"age"} : BadAge(p.age)}
    \cup {f \in {"monthly_income"} : BadAmount(p.monthly_income)}
    \cup {f \in {"current_savings"} : BadAmount(p.current_savings)}
    \cup {f \in {"monthly_surplus"} : BadAmount(p.monthly_surplus)}
    \cup {f \in {"risk_tolerance_score"} : BadTolerance(p.risk_tolerance_score)}

\* the stated defaults: age 30, income 0 if negative else 50000, savings 0,
\* surplus 0, tolerance 5; a good value is kept
StatedAge(raw) == IF BadAge(raw) THEN 30 ELSE IntOfTenths(raw.v)

StatedIncome(raw) ==
    IF raw.k = "num" THEN (IF raw.v < 0 THEN 0 ELSE raw.v) ELSE 50000

StatedAmount(raw) == IF BadAmount(raw) THEN 0 ELSE raw.v

StatedTolerance(raw) == IF BadTolerance(raw) THEN 5 ELSE IntOfTenths(raw.v)

\* goals and custom weights that scoring accepts
GoodRest(p) ==
    /\ p.goals.k \in {"dict", "missing", "none"}
    /\ \/ p.custom_weights.k = "missing"
       \/ /\ p.custom_weights.k = "dict"
          /\ FactorNames \subseteq DOMAIN p.custom_weights.w

\* C5: an engine profile in which exactly one of age, monthly_income,
\* current_savings, monthly_surplus, risk_tolerance_score is bad (missing, out of
\* range, negative, None or non-numeric) is scored normally: the bad field takes
\* its default, the others keep their values, and the result is not the fallback
\* and has no 'error' entry.
C5_OneBadFieldScoredNormally ==
    (/\ call.op = "engine_score"
     /\ call.profile.mapping
     /\ GoodRest(call.profile)
     /\ Cardinality(BadFields(call.profile)) = 1) =>
        /\ ~call.logged_error
        /\ ~call.result.error
        /\ call.locals.age = StatedAge(call.profile.age)
        /\ call.locals.income = StatedIncome(call.profile.monthly_income)
        /\ call.locals.current_savings = StatedAmount(call.profile.current_savings)
        /\ call.locals.monthly_surplus = StatedAmount(call.profile.monthly_surplus)
        /\ call.locals.risk_tolerance =
               StatedTolerance(call.profile.risk_tolerance_score)

\* the current engine call, and the same call with another risk tolerance
ThisRun ==
    [result |-> call.result, logged_error |-> call.logged_error, locals |-> call.locals]

RunWithTolerance(t) ==
    calculate_risk_score(engine.WEIGHTS,
                         [call.profile EXCEPT !.risk_tolerance_score = Num(10 * t)])

\* C6 as stated: a tolerance above 10 scores as tolerance 10 and a tolerance
\* below 1 scores as tolerance 1.
C6_ToleranceClamped ==
    (/\ call.op = "engine_score"
     /\ call.profile.mapping
     /\ call.profile.risk_tolerance_score.k = "num") =>
        /\ call.profile.risk_tolerance_score.v > 100 => ThisRun = RunWithTolerance(10)
        /\ call.profile.risk_tolerance_score.v < 10 => ThisRun = RunWithTolerance(1)

\* C6 as amended: a tolerance that int() truncates to a value above 10 or below 1
\* is replaced by the default 5, so the profile scores as the otherwise identical
\* profile with tolerance 5.
C6_ToleranceDefaulted ==
    (/\ call.op = "engine_score"
     /\ call.profile.mapping
     /\ call.profile.risk_tolerance_score.k = "num"
     /\ \/ IntOfTenths(call.profile.risk_tolerance_score.v) > 10
        \/ IntOfTenths(call.profile.risk_tolerance_score.v) < 1) =>
        ThisRun = RunWithTolerance(5)

\* C6 witness: a tolerance of 11 scored without a failure, with tolerance 5
C6_Witness ==
    /\ call.op = "engine_score"
    /\ call.profile.risk_tolerance_score = Num(110)
    /\ ~call.logged_error
    /\ call.locals.risk_tolerance = 5
    /\ ThisRun # RunWithTolerance(10)

\* C7: for a score below 0 or above 1 every category mapper returns Moderate with
\* the 55/45 debt/equity baseline.
C7_OutOfBandIsModerate ==
    (call.op = "categorize" /\ (call.risk_score < 0 \/ call.risk_score > ScoreOne)) =>
        /\ call.result.category = "Moderate"
        /\ call.result.allocation =
               IF call.mapper = "engine" THEN [debt |-> 55, equity |-> 45]
               ELSE [debt |-> Frac(55), equity |-> Frac(45)]

InUnit(x) == 0 <= x /\ x <= FactorOne

\* C8: each of the six factor scores lies in [0,1], in the engine and in the
\* module-level scoring as the dashboard calls it (tolerance from a 1..10 slider).
C8_FactorsInUnitInterval ==
    /\ (call.op = "engine_score" /\ ~call.logged_error) =>
         \A n \in FactorNames : InUnit(call.locals.factors[n])
    /\ (call.op = "dashboard" /\ ~call.result.raised) =>
         \A n \in SimpleNames : InUnit(call.result.score.locals.factors[n])

\* C9: whenever the income is <= 0 the surplus factor and the savings factor are
\* exactly 0, in the engine and in the module-level calculate_risk_score.
C9_NoIncomeNoSurplusNoSavings ==
    /\ (call.op = "engine_score" /\ ~call.logged_error /\ call.locals.income <= 0) =>
         /\ call.locals.factors.surplus_factor = 0
         /\ call.locals.factors.savings_factor = 0
    /\ (call.op \in RaOps /\ ~RaInner.raised /\ call.args.income <= 0) =>
         /\ RaInner.locals.factors.surplus = 0
         /\ RaInner.locals.factors.savings = 0

\* C10: for income > 0 the savings factor reaches its cap 1.0 exactly when
\* currentSavings >= 5 x income and is strictly below 1.0 otherwise, in the engine
\* and in the module-level calculate_risk_score alike.
C10_SavingsCapAtFiveIncomes ==
    /\ (call.op = "engine_score" /\ ~call.logged_error /\ call.locals.income > 0) =>
         (call.locals.factors.savings_factor = FactorOne
            <=> call.locals.current_savings >= 5 * call.locals.income)
    /\ (call.op \in RaOps /\ ~RaInner.raised /\ call.args.income > 0) =>
         (RaInner.locals.factors.savings = FactorOne
            <=> call.args.current_savings >= 5 * call.args.income)

NonNegative(w) == \A n \in DOMAIN w : w[n] >= 0

\* risk tolerances and ages a run is compared with
ToleranceGrid == {1, 2, 5, 9, 10}

AgeGrid == {18, 25, 26, 45, 46, 56, 100}

ValidTolerance(raw) == raw.k = "num" /\ ~BadTolerance(raw)

ValidAge(raw) == raw.k = "num" /\ ~BadAge(raw)

RunWithAge(a) ==
    calculate_risk_score(engine.WEIGHTS, [call.profile EXCEPT !.age = Num(10 * a)])

RaWithTolerance(t) ==
    ra_calculate_risk_score([call.args EXCEPT !.risk_tolerance = t])

RaWithAge(a) == ra_calculate_risk_score([call.args EXCEPT !.age = a])

\* the engine call in progress scored without a failure under non-negative weights
EngineScoredNonNegative ==
    /\ call.op = "engine_score"
    /\ ~call.logged_error
    /\ NonNegative(call.locals.weights)

RaScoredNonNegative ==
    /\ call.op \in RaOps
    /\ ~RaInner.raised
    /\ NonNegative(ra_weights(call.args.weights))

\* C11: under non-negative weights and with the other fields fixed, a higher risk
\* tolerance on the implementation's scale (1..10 engine, 1..5 module level) never
\* gives a lower score, and a higher age in 18..100 never gives a higher score;
\* for the engine both the unrounded and the returned rounded score.
C11_MonotoneInToleranceAndAge ==
    /\ (EngineScoredNonNegative /\ ValidTolerance(call.profile.risk_tolerance_score)) =>
         \A t \in ToleranceGrid :
             LET other == RunWithTolerance(t)
                 up == t > call.locals.risk_tolerance
                 down == t < call.locals.risk_tolerance
             IN  /\ up => /\ other.locals.risk_score >= call.locals.risk_score
                          /\ other.result.risk_score >= call.result.risk_score
                 /\ down => /\ other.locals.risk_score <= call.locals.risk_score
                            /\ other.result.risk_score <= call.result.risk_score
    /\ (EngineScoredNonNegative /\ ValidAge(call.profile.age)) =>
         \A a \in AgeGrid :
             LET other == RunWithAge(a)
                 older == a > call.locals.age
                 younger == a < call.locals.age
             IN  /\ older => /\ other.locals.risk_score <= call.locals.risk_score
                             /\ other.result.risk_score <= call.result.risk_score
                 /\ younger => /\ other.locals.risk_score >= call.locals.risk_score
                               /\ other.result.risk_score >= call.result.risk_score
    /\ (RaScoredNonNegative /\ call.args.risk_tolerance \in 1..5) =>
         \A t \in ToleranceGrid \cap (1..5) :
             /\ t > call.args.risk_tolerance =>
                    RaWithTolerance(t).risk_score >= RaInner.risk_score
             /\ t < call.args.risk_tolerance =>
                    RaWithTolerance(t).risk_score <= RaInner.risk_score
    /\ (RaScoredNonNegative /\ call.args.age \in 18..100) =>
         \A a \in AgeGrid :
             /\ a > call.args.age => RaWithAge(a).risk_score <= RaInner.risk_score
             /\ a < call.args.age => RaWithAge(a).risk_score >= RaInner.risk_score

\* C11 witness: an engine call at tolerance 1 and age 46 that scores strictly
\* lower than the same profile at tolerance 10 and strictly lower than at age 25
C11_Witness ==
    /\ EngineScoredNonNegative
    /\ call.profile.risk_tolerance_score = Num(10)
    /\ call.profile.age = Num(460)
    /\ RunWithTolerance(10).locals.risk_score > call.locals.risk_score
    /\ RunWithAge(25).locals.risk_score > call.locals.risk_score

\* integer ages a caller may pass, inside and outside 18..100
AnyAgeGrid == {-1, 0, 17, 18, 25, 30, 31, 56, 100, 101, 150}

\* the engine call in progress scored an integer age under the default weights
EngineScoredIntegerAge ==
    /\ call.op = "engine_score"
    /\ ~call.logged_error
    /\ call.locals.weights = WEIGHTS
    /\ call.profile.age.k = "num"
    /\ call.profile.age.v % 10 = 0

\* the age the stated validation scores: an age outside 18..100 counts as 30
EffectiveAge(a) == IF a < 18 \/ a > 100 THEN 30 ELSE a

\* C12 as stated: for integer ages a1 < a2, whatever their values, the younger
\* profile never scores lower.
C12_MonotoneInAnyAge ==
    EngineScoredIntegerAge =>
        \A a \in AnyAgeGrid :
            LET this == call.profile.age.v \div 10
                other == RunWithAge(a)
            IN  /\ this < a => call.locals.risk_score >= other.locals.risk_score
                /\ a < this => other.locals.risk_score >= call.locals.risk_score

\* C12 as amended: the score falls with the age the validation keeps, where an
\* integer age outside 18..100 is scored as age 30: of two integer ages the one
\* with the lower effective age never scores lower, and ages with the same
\* effective age get the same result.
C12_MonotoneInEffectiveAge ==
    EngineScoredIntegerAge =>
        \A a \in AnyAgeGrid :
            LET this == EffectiveAge(call.profile.age.v \div 10)
                other == RunWithAge(a)
            IN  /\ this <= EffectiveAge(a) =>
                       call.locals.risk_score >= other.locals.risk_score
                /\ EffectiveAge(a) <= this =>
                       other.locals.risk_score >= call.locals.risk_score
                /\ EffectiveAge(a) = this => other.result = call.result

\* C12 witness: age 17 scored as age 30 and strictly below age 18
C12_Witness ==
    /\ EngineScoredIntegerAge
    /\ call.profile.age = Num(170)
    /\ call.locals.age = 30
    /\ RunWithAge(30).result = call.result
    /\ RunWithAge(18).locals.risk_score > call.locals.risk_score

\* the entry of sub-category c in what filter_funds returned, as a set (empty
\* when c was dropped)
EntriesOf(c) ==
    {call.filtered.filtered_funds[i] : i \in
        {j \in 1..Len(call.filtered.filtered_funds) :
            call.filtered.filtered_funds[j].category = c}}

\* the rows of a frame as a set
RowSet(frame) == {frame[i] : i \in 1..Len(frame)}

\* a shortlisted row without its score
Unscored(g) == [col \in DOMAIN g \ {"score"} |-> g[col]]

StatedThreshold ==
    [large_cap |-> 200, mid_cap |-> 225, small_cap |-> 250, debt |-> 150,
     hybrid |-> 200]

\* the four stated filters, each statistic taken over the funds of category c only
StatedPass(universe, c, f) ==
    LET subset == SelectSeq(universe, LAMBDA x : x.category = c)
    IN  /\ f.category = c
        /\ 4 * f.ret > QuantileTimes4(Column(subset, "ret"), 2)
        /\ f.expense_ratio < StatedThreshold[c]
        /\ f.age_years > 3
        /\ 4 * f.sharpe_ratio > QuantileTimes4(Column(subset, "sharpe_ratio"), 3)

StatedPassing(universe, c) ==
    {f \in RowSet(universe) : StatedPass(universe, c, f)}

MainCategories == {"large_cap", "mid_cap", "small_cap", "debt"}

\* C14: every fund filter_funds shortlists for a sub-category c is a fund of the
\* universe of category c that passes the four strict filters taken over the
\* funds of category c; and when between 1 and 5 funds of c pass, the shortlist
\* of c holds them all (for hybrid: whenever hybrid has a shortlist).
C14_ShortlistPassesFilters ==
    call.op = "recommend" =>
        \A c \in FundCategories :
            /\ \A e \in EntriesOf(c) :
                   \A g \in RowSet(e.funds) :
                       /\ Unscored(g) \in RowSet(call.fund_universe)
                       /\ StatedPass(call.fund_universe, c, Unscored(g))
            /\ LET passing == StatedPassing(call.fund_universe, c)
               IN  (passing # {} /\ Cardinality(passing) <= 5) =>
                       /\ c \in MainCategories => EntriesOf(c) # {}
                       /\ \A e \in EntriesOf(c) :
                              passing = {Unscored(g) : g \in RowSet(e.funds)}

\* C14 witness: a large_cap shortlist of four funds from a universe that also
\* holds a large_cap fund no older than 3 years, one at or above the expense
\* threshold, one not above the median return and one not above the 75th
\* percentile of the Sharpe ratio
C14_Witness ==
    /\ call.op = "recommend"
    /\ \E e \in EntriesOf("large_cap") : Len(e.funds) = 4
    /\ LET subset == CategoryFunds(call.fund_universe, "large_cap")
       IN  /\ \E f \in RowSet(subset) : f.age_years <= 3
           /\ \E f \in RowSet(subset) : f.expense_ratio >= 200
           /\ \E f \in RowSet(subset) :
                  /\ 4 * f.ret <= QuantileTimes4(Column(subset, "ret"), 2)
                  /\ 4 * f.sharpe_ratio
                       > QuantileTimes4(Column(subset, "sharpe_ratio"), 3)
           /\ \E f \in RowSet(subset) :
                  /\ 4 * f.ret > QuantileTimes4(Column(subset, "ret"), 2)
                  /\ 4 * f.sharpe_ratio
                       <= QuantileTimes4(Column(subset, "sharpe_ratio"), 3)

\* the portfolios the call in progress produced, with the universe they came from
Portfolios ==
    CASE call.op = "recommend" -> {call.result}
      [] call.op = "dashboard" -> RowSet(call.portfolio)
      [] OTHER -> {}

CallUniverse == IF call.op = "recommend" THEN call.fund_universe ELSE SampleFunds

Recommendations(portfolio) == RowSet(portfolio.recommendations)

\* the four figures the composite score is built from
Figures(f) == <<f.ret, f.expense_ratio, f.sharpe_ratio, f.alpha>>

\* C15: the composite score of every shortlisted fund is a well-defined number in
\* [0,1]; when all the funds of a sub-category that survive the filters have the
\* same 3yr_return, expense_ratio, sharpe_ratio and alpha (a single survivor
\* included), every composite score of that sub-category is exactly 0.
C15_CompositeScoreInUnitInterval ==
    \A portfolio \in Portfolios :
        \A r \in Recommendations(portfolio) :
            /\ \A g \in RowSet(r.top_funds) :
                   /\ g.score.den > 0
                   /\ 0 <= g.score.num
                   /\ g.score.num <= g.score.den
            /\ Cardinality({Figures(f) : f \in StatedPassing(CallUniverse, r.category)}) = 1
                 => \A g \in RowSet(r.top_funds) : g.score.num = 0

\* C15 witness: six identical survivors, five of them shortlisted with score 0,
\* in a call that also shortlists a single survivor with score 0
C15_Witness ==
    /\ call.op = "recommend"
    /\ \E r \in Recommendations(call.result) :
           /\ Cardinality(StatedPassing(call.fund_universe, r.category)) = 6
           /\ Cardinality({Figures(f) :
                              f \in StatedPassing(call.fund_universe, r.category)}) = 1
           /\ r.fund_count = 5
           /\ \A g \in RowSet(r.top_funds) : g.score.num = 0
    /\ \E r \in Recommendations(call.result) :
           /\ Cardinality(StatedPassing(call.fund_universe, r.category)) = 1
           /\ \A g \in RowSet(r.top_funds) : g.score.num = 0

\* a call that scored a fund 1.0 and another fund of the same sub-category less
C15_FullScoreReached ==
    /\ call.op = "recommend"
    /\ \E r \in Recommendations(call.result) :
           /\ \E g \in RowSet(r.top_funds) : g.score.num = g.score.den
           /\ \E g \in RowSet(r.top_funds) : g.score.num < g.score.den

\* the position of the fund named n in the universe of the call
PositionOf(n) ==
    CHOOSE i \in 1..Len(call.fund_universe) : call.fund_universe[i].fund_name = n

\* the survivors of sub-category c in the order of the universe, and the score
\* of each
SurvivorsOf(c) ==
    SelectSeq(call.fund_universe, LAMBDA f : StatedPass(call.fund_universe, c, f))

SurvivorScores(c) == composite_scores(SurvivorsOf(c))

\* C16: the fund list of each sub-category holds at most 5 funds (all survivors
\* when there are at most 5), is in descending order of composite score, leaves
\* out no survivor that scores strictly higher than a listed fund, and lists
\* funds of equal score in their order in the supplied universe.
C16_TopFiveByScore ==
    call.op = "recommend" =>
        \A i \in 1..Len(call.filtered.filtered_funds) :
            LET e == call.filtered.filtered_funds[i]
                funds == e.funds
                survivors == SurvivorsOf(e.category)
                listed == {funds[k].fund_name : k \in 1..Len(funds)}
            IN  /\ Len(funds) = Min(5, Len(survivors))
                /\ Cardinality(listed) = Len(funds)
                /\ call.result.recommendations[i].fund_count = Len(funds)
                /\ \A k \in 1..Len(funds) :
                       call.result.recommendations[i].top_funds[k].fund_name
                           = funds[k].fund_name
                /\ \A j, k \in 1..Len(funds) :
                       j < k =>
                           /\ funds[j].score.num >= funds[k].score.num
                           /\ funds[j].score.num = funds[k].score.num =>
                                  PositionOf(funds[j].fund_name)
                                      < PositionOf(funds[k].fund_name)
                /\ \A m \in 1..Len(survivors) :
                       survivors[m].fund_name \notin listed =>
                           \A k \in 1..Len(funds) :
                               SurvivorScores(e.category)[m].num <= funds[k].score.num

\* C16 witness: five of six survivors listed, two listed funds with equal scores,
\* and the survivor left out scoring as much as the last listed fund
C16_Witness ==
    /\ call.op = "recommend"
    /\ \E i \in 1..Len(call.filtered.filtered_funds) :
           LET e == call.filtered.filtered_funds[i]
               survivors == SurvivorsOf(e.category)
           IN  /\ Len(survivors) = 6
               /\ Len(e.funds) = 5
               /\ e.funds[1].score.num = e.funds[2].score.num
               /\ e.funds[2].score.num > e.funds[3].score.num
               /\ \E m \in 1..6 :
                      /\ \A k \in 1..5 : survivors[m].fund_name # e.funds[k].fund_name
                      /\ SurvivorScores(e.category)[m].num = e.funds[5].score.num

\* the stated baselines, in percent
StatedBaseline ==
    [c \in Categories |->
        CASE c = "Very Conservative" -> [debt |-> 85, equity |-> 15]
          [] c = "Conservative" -> [debt |-> 70, equity |-> 30]
          [] c = "Moderate" -> [debt |-> 55, equity |-> 45]
          [] c = "Growth" -> [debt |-> 35, equity |-> 65]
          [] OTHER -> [debt |-> 20, equity |-> 80]]

\* the stated fixed share of a sub-category, in tenths of a percent
StatedShare(risk_category, c) ==
    CASE c = "large_cap" -> StatedBaseline[risk_category].equity * 5
      [] c = "mid_cap" -> StatedBaseline[risk_category].equity * 3
      [] c = "small_cap" -> StatedBaseline[risk_category].equity * 2
      [] OTHER -> StatedBaseline[risk_category].debt * 10

RECURSIVE SumPercentages(_)
SumPercentages(recommendations) ==
    IF recommendations = <<>> THEN 0
    ELSE Head(recommendations).allocation_percentage
             + SumPercentages(Tail(recommendations))

RecommendedCategories(portfolio) ==
    {r.category : r \in Recommendations(portfolio)}

\* C17: large_cap, mid_cap, small_cap and debt each appear in the recommendation
\* exactly when one of their funds survives the filters; an entry that appears
\* holds its fixed share of the baseline whatever else is present; and
\* total_allocation is the sum of the allocations of the entries present.
C17_FixedSharesNoRedistribution ==
    \A portfolio \in Portfolios :
        /\ \A c \in MainCategories :
               c \in RecommendedCategories(portfolio)
                   <=> StatedPassing(CallUniverse, c) # {}
        /\ \A r \in Recommendations(portfolio) :
               r.category \in MainCategories =>
                   r.allocation_percentage
                       = StatedShare(portfolio.risk_category, r.category)
        /\ portfolio.total_allocation = SumPercentages(portfolio.recommendations)
        /\ portfolio.total_categories = Len(portfolio.recommendations)

\* C17 witness: one main sub-category dropped, another present next to a hybrid
\* entry, and the total short of 100%
C17_Witness ==
    /\ call.op = "recommend"
    /\ MainCategories \ RecommendedCategories(call.result) # {}
    /\ MainCategories \cap RecommendedCategories(call.result) # {}
    /\ "hybrid" \in RecommendedCategories(call.result)
    /\ call.result.total_allocation < 1000

\* the stated hybrid allocation of the three middle categories, in tenths of a
\* percent
StatedHybrid ==
    [c \in {"Conservative", "Moderate", "Growth"} |->
        CASE c = "Conservative" -> 60
          [] c = "Moderate" -> 90
          [] OTHER -> 70]

\* C18: a hybrid entry is produced only for Conservative, Moderate and Growth and
\* only when a hybrid fund survives the filters; its allocation is 6%, 9% and 7%
\* respectively; Very Conservative and Aggressive never get one.
C18_HybridOnlyInMiddleCategories ==
    \A portfolio \in Portfolios :
        /\ \A r \in Recommendations(portfolio) :
               r.category = "hybrid" =>
                   /\ portfolio.risk_category \in DOMAIN StatedHybrid
                   /\ StatedPassing(CallUniverse, "hybrid") # {}
                   /\ r.allocation_percentage = StatedHybrid[portfolio.risk_category]
                   /\ r.fund_count >= 1
        /\ portfolio.risk_category \in {"Very Conservative", "Aggressive"} =>
               "hybrid" \notin RecommendedCategories(portfolio)
        /\ (/\ portfolio.risk_category \in DOMAIN StatedHybrid
            /\ StatedPassing(CallUniverse, "hybrid") # {}) =>
               "hybrid" \in RecommendedCategories(portfolio)

\* C18 witness: a Growth portfolio with a hybrid entry of 7%
C18_Witness ==
    /\ call.op = "recommend"
    /\ call.result.risk_category = "Growth"
    /\ \E r \in Recommendations(call.result) :
           r.category = "hybrid" /\ r.allocation_percentage = 70

\* an Aggressive portfolio drawn from a universe whose hybrid funds survive
C18_AggressiveWithHybridSurvivors ==
    /\ call.op = "recommend"
    /\ call.result.risk_category = "Aggressive"
    /\ StatedPassing(call.fund_universe, "hybrid") # {}

\* C19: the total_allocation of every recommendation returned by
\* create_portfolio_recommendations is at most 100%.
C19_TotalAtMostHundred ==
    \A portfolio \in Portfolios : portfolio.total_allocation <= 1000

\* C20: analyze_user_risk_profile assigns the older investor of the sample run
\* (age 55, income 120000, savings 1500000, surplus 20000, one goal at 36 months,
\* tolerance 2, default weights) a category whose baseline debt is at least 55%.
C20_OlderInvestorLeansConservative ==
    (call.op = "ra_analyze" /\ call.args = older_investor) =>
        /\ ~call.result.raised
        /\ call.result.debt_percentage >= 550

OnlyCategory(c) == SelectSeq(call.fund_universe, LAMBDA f : f.category = c)

\* C21: what filter_funds returns for sub-category c (whether it is present, its
\* allocation, its ordered fund list) is what it returns for the same score and
\* the funds of category c alone; every listed fund has the category of its entry,
\* so a fund of an unknown category is in no list.
C21_SelfRelativePerCategory ==
    call.op = "recommend" =>
        /\ \A c \in FundCategories :
               EntriesOf(c) =
                   RowSet(filter_funds(OnlyCategory(c), call.risk_score).filtered_funds)
        /\ \A i \in 1..Len(call.filtered.filtered_funds) :
               LET e == call.filtered.filtered_funds[i]
               IN  /\ e.category \in FundCategories
                   /\ \A k \in 1..Len(e.funds) : e.funds[k].category = e.category

\* C21 witness: a universe holding funds of unknown categories together with funds
\* of several known ones, two of which are recommended
C21_Witness ==
    /\ call.op = "recommend"
    /\ \E i \in 1..Len(call.fund_universe) :
           call.fund_universe[i].category \notin FundCategories
    /\ Len(call.filtered.filtered_funds) >= 2
    /\ \E c \in FundCategories :
           /\ EntriesOf(c) # {}
           /\ Len(OnlyCategory(c)) < Len(call.fund_universe)

\* the entry reported for value v of parameter p, scored on its own
StatedEntry(p, v) ==
    LET alone == calculate_risk_score(engine.WEIGHTS,
                                      [call.base_profile EXCEPT ![p] = v]).result
        base == calculate_risk_score(engine.WEIGHTS, call.base_profile).result
    IN  [value |-> v,
         risk_score |-> alone.risk_score,
         risk_category |-> alone.risk_category,
         score_change |-> alone.risk_score - base.risk_score]

\* C23: analyze_risk_sensitivity leaves base_profile as it was, and the entry it
\* reports for value v of parameter p is the score and category that
\* calculate_risk_score gives the base profile with only p replaced by v, with
\* score_change that score minus the base score - whatever the other variations
\* and their order.
C23_SensitivityIsIndependentRescoring ==
    call.op = "sensitivity" =>
        /\ call.result.base_profile = call.base_profile
        /\ call.result.base_score
               = calculate_risk_score(engine.WEIGHTS, call.base_profile).result.risk_score
        /\ Len(call.result.sensitivity_results) = Len(call.variations)
        /\ \A i \in 1..Len(call.variations) :
               LET given == call.variations[i]
                   got == call.result.sensitivity_results[i]
               IN  /\ got.param = given.param
                   /\ Len(got.results) = Len(given.values)
                   /\ \A k \in 1..Len(given.values) :
                          got.results[k] = StatedEntry(given.param, given.values[k])

\* C23 witness: three parameters varied, a later variation scoring differently
\* from the base and an earlier one having changed the score too
C23_Witness ==
    /\ call.op = "sensitivity"
    /\ Len(call.variations) = 3
    /\ call.result.sensitivity_results[1].results[1].score_change # 0
    /\ call.result.sensitivity_results[3].results[2].score_change # 0
    /\ call.result.sensitivity_results[3].results[2].risk_score
           # call.result.sensitivity_results[1].results[1].risk_score

\* the goals dicts with the horizons of `items`: every insertion order, with the
\* amounts as given or all replaced by another amount
Rearranged(items) ==
    LET n == Len(items)
        orders == {f \in [1..n -> 1..n] : \A i, j \in 1..n : f[i] = f[j] => i = j}
    IN  UNION { { [i \in 1..n |-> items[f[i]]],
                  [i \in 1..n |-> [months |-> items[f[i]].months, amount |-> 1]],
                  [i \in 1..n |-> [months |-> items[f[i]].months,
                                   amount |-> 750000 + i]] } : f \in orders }

AsFraction(n) == n * Frac(100)

\* C25: for every score in [0,1] the legacy wrapper get_risk_category_from_score of
\* risk_assessment_complex returns the category label and the debt and equity
\* values that risk_assessment.get_risk_category_from_score and the copy in
\* fund_filtering return.
C25_LegacyMapperCompatible ==
    (call.op = "legacy_categorize" /\ 0 <= call.risk_score
            /\ call.risk_score <= ScoreOne) =>
        \A old \in {ra_get_risk_category_from_score(call.risk_score),
                    ff_get_risk_category_from_score(call.risk_score)} :
            /\ call.result.category = old.category
            /\ AsFraction(call.result.allocation.debt) = old.allocation.debt
            /\ AsFraction(call.result.allocation.equity) = old.allocation.equity

\* the part of C25 that holds: the labels agree on [0,1]
C25_LabelsAgree ==
    (call.op = "legacy_categorize" /\ 0 <= call.risk_score
            /\ call.risk_score <= ScoreOne) =>
        /\ call.result.category
               = ra_get_risk_category_from_score(call.risk_score).category
        /\ call.result.category
               = ff_get_risk_category_from_score(call.risk_score).category

\* C26: on the dashboard the risk_category that analyze_user_risk_profile returns
\* is the risk_category of the portfolio that create_portfolio_recommendations
\* builds from the returned, rounded risk_score.
C26_DashboardCategoriesAgree ==
    (call.op = "dashboard" /\ ~call.result.raised) =>
        \A portfolio \in RowSet(call.portfolio) :
            portfolio.risk_category = call.result.risk_category

\* the funds of category c in the universe of the call
SubsetOf(c) == SelectSeq(CallUniverse, LAMBDA f : f.category = c)

\* all funds of a frame have the same value in column col
OneValue(frame, col) == \A i, j \in 1..Len(frame) : frame[i][col] = frame[j][col]

\* C27: of a non-empty category subset at least one fund is filtered out, and a
\* sub-category whose subset is a single fund, or whose funds share one 3yr_return
\* or share one sharpe_ratio, is not in the recommendation.
C27_StrictFiltersDropSomeFund ==
    \A portfolio \in Portfolios :
        \A c \in FundCategories :
            LET subset == SubsetOf(c)
            IN  /\ subset # <<>> =>
                       /\ Len(apply_category_filters(subset, c)) < Len(subset)
                       /\ \A r \in Recommendations(portfolio) :
                              r.category = c => r.fund_count < Len(subset)
                /\ (subset # <<>> /\ (\/ Len(subset) = 1
                                      \/ OneValue(subset, "ret")
                                      \/ OneValue(subset, "sharpe_ratio"))) =>
                       c \notin RecommendedCategories(portfolio)

\* C27 witness: a Moderate recommendation without hybrid although the universe
\* holds three cheap and old hybrid funds, two of them above the median Sharpe
\* ratio, which share one return
C27_Witness ==
    /\ call.op = "recommend"
    /\ call.result.risk_category = "Moderate"
    /\ Len(SubsetOf("hybrid")) = 3
    /\ OneValue(SubsetOf("hybrid"), "ret")
    /\ ~OneValue(SubsetOf("hybrid"), "sharpe_ratio")
    /\ "hybrid" \notin RecommendedCategories(call.result)
    /\ RecommendedCategories(call.result) # {}

\* the clamped weighted sum of the factors of the call under the weights w
Clamp01Score(w) ==
    Min(Max(SumWeights([n \in FactorNames |-> w[n] * call.locals.factors[n]],
                       FactorNames), 0), ScoreOne)

\* every field of profile p but custom_weights is a number, the goals a dict
OtherFieldsNumeric(p) ==
    /\ p.mapping
    /\ \A f \in {"age", "monthly_income", "current_savings", "monthly_surplus",
                 "risk_tolerance_score"} : p[f].k = "num"
    /\ p.goals.k = "dict"

\* the supplied custom_weights is not a table holding all six factor keys
LacksFactorKey(custom_weights) ==
    \/ custom_weights.k = "none"
    \/ /\ custom_weights.k = "dict"
       /\ FactorNames \ DOMAIN custom_weights.w # {}

C28_LegacyFallbackReached ==
    /\ call.op = "legacy_score"
    /\ call.args.weights.k = "dict"
    /\ call.args.weights.w = default_weights
    /\ call.result = 300

\* the band RISK_CATEGORIES configures for a category, in thousandths
BandOf(category) ==
    LET i == CHOOSE j \in 1..Len(RISK_CATEGORIES) :
                 RISK_CATEGORIES[j].category = category
    IN  [min |-> RISK_CATEGORIES[i].min \div (ScoreOne \div 1000),
         max |-> RISK_CATEGORIES[i].max \div (ScoreOne \div 1000)]

\* C29: every result of the engine's calculate_risk_score, computed or fallback,
\* names a category of the allocation table with that category's debt and equity
\* shares, the shares add up to 100, and the reported 3-decimal risk_score lies
\* in the closed band configured for the reported category.
C29_ResultInternallyConsistent ==
    call.op = "engine_score" =>
        LET r == call.result
        IN  /\ ~r.raised
            /\ r.risk_category \in Categories
            /\ r.debt_allocation = ALLOCATIONS[r.risk_category].debt
            /\ r.equity_allocation = ALLOCATIONS[r.risk_category].equity
            /\ r.debt_allocation + r.equity_allocation = 100
            /\ BandOf(r.risk_category).min <= r.risk_score
            /\ r.risk_score <= BandOf(r.risk_category).max

\* C29 witness: a computed score strictly inside one band has been reported
\* rounded onto the boundary it shares with the band below
C29_Witness ==
    /\ call.op = "engine_score"
    /\ ~call.logged_error
    /\ \E i \in 2..Len(RISK_CATEGORIES) :
          /\ call.locals.risk_score > RISK_CATEGORIES[i].min
          /\ call.result.risk_category = RISK_CATEGORIES[i].category
          /\ call.result.risk_score = BandOf(RISK_CATEGORIES[i].category).min

\* the fallback and a score clamped to 1.0 have been returned
C29_FallbackReached == call.op = "engine_score" /\ IsFallback(call.result)
C29_TopOfScaleReached ==
    /\ call.op = "engine_score"
    /\ ~call.logged_error
    /\ call.result.risk_score = 1000

\* C22: with the steps of two requests interleaved in any order, a request that
\* has returned holds the result the whole call gives on what was supplied: on
\* one shared engine, calculate_risk_score of its profile under the engine's
\* configuration; on one shared fund universe, filter_funds of the universe and
\* its score.  At every step the fund universe with its columns, the profiles
\* and the engine's configured weights are as they were supplied.
C22_InterleavedRequestsIndependent ==
    /\ (call # Idle /\ call.op = "engine_pair") =>
           /\ \A i \in Requests :
                 Finished(i) =>
                     call.req[i].result
                         = calculate_risk_score(call.supplied.config,
                                                call.supplied.profiles[i]).result
           /\ call.profiles = call.supplied.profiles
           /\ engine.WEIGHTS = call.supplied.config
    /\ (call # Idle /\ call.op = "funds_pair") =>
           /\ \A i \in Requests :
                 Finished(i) =>
                     call.req[i].result
                         = filter_funds(call.supplied.fund_universe,
                                        call.supplied.risk_score[i])
           /\ call.fund_universe = call.supplied.fund_universe

\* C22 witness: two filter_funds requests of different risk scores have both
\* returned after taking turns on the one universe, each with funds of its own
C22_Witness ==
    /\ call # Idle
    /\ call.op = "funds_pair"
    /\ \A i \in Requests : Finished(i) /\ call.req[i].result.filtered_funds # <<>>
    /\ call.turn.switches >= MaxSwitches
    /\ call.supplied.risk_score[1] # call.supplied.risk_score[2]
    /\ call.req[1].result # call.req[2].result

\* two scorings on the one engine, one with custom weights and one without, have
\* both returned after taking turns
C22_EnginePairReached ==
    /\ call # Idle
    /\ call.op = "engine_pair"
    /\ \A i \in Requests : Finished(i)
    /\ call.turn.switches >= MaxSwitches
    /\ call.supplied.profiles[1].custom_weights.k = "dict"
    /\ call.supplied.profiles[2].custom_weights.k = "missing"
    /\ call.req[1].result # call.req[2].result

====
